---- MODULE Spec2Model ----
(***************************************************************************)
(* Discrete-event simulation engine of a processor-sharing queueing        *)
(* network: the next-event scheduler (simulator/scheduler.py), the events  *)
(* (simulator/event.py), the jobs (simulator/job.py), the PS nodes         *)
(* (simulator/node.py), the arrivals generator (simulator/arrivals.py)     *)
(* and the global ARRIVAL / DEPARTURE handlers with the run loop           *)
(* (simulator/simulation.py).                                              *)
(*                                                                         *)
(* Times and service requirements are Python floats in the source; the     *)
(* model computes them in exact rational arithmetic, a rational being a    *)
(* pair <<numerator, denominator>> in lowest terms with a positive         *)
(* denominator.  Random variates (idfExponential of a Lehmer draw) are     *)
(* positive values chosen nondeterministically from small sets.            *)
(***************************************************************************)
EXTENDS Integers, Sequences, FiniteSets, TLC

VARIABLES
    event_queue,              \* NextEventScheduler.event_queue: the heapq list (of event ids)
    events,                   \* the Event objects created so far, by Event.id
    Event_ids,                \* Event._ids: the next value of the class-wide counter
    current_time,             \* NextEventScheduler.current_time
    job_table,                \* NextEventScheduler.job_table: the job ids it maps (to the Job object)
    subscribers,              \* NextEventScheduler.subscribers: kind -> handlers, in registration order
    interceptors,             \* NextEventScheduler.interceptors: kind -> handlers, in registration order
    jobs,                     \* the Job objects created so far, by Job.id
    Job_ids,                  \* Job._ids: the next value of the class-wide counter
    nodes,                    \* Network.nodes: name -> Node (jobs, last_update, _next_departure)
    total_external_arrivals,  \* Simulation.total_external_arrivals
    total_completed_jobs,     \* Simulation.total_completed_jobs
    active,                   \* ArrivalsGenerator.active
    cnt,                      \* the local counter cnt of Simulation.run
    calls,                    \* the handler invocations of the latest next(): <<handler, event id, current_time>>
    raised,                   \* TRUE once a handler has raised (KeyError)
    sched_log,                \* per event scheduled by the harness: the time it was built with, the delay, the time of the call
    manual,                   \* the position of the test in progress: the orphan-event test (running the simulation, pending departure cancelled, done), the generator's self-test (its statement, its local ok)
    rng,                      \* MultiStreamRNG: seed (the 256 states), stream, initialized
    est,                      \* the estimators attached to the scheduler (rt, pop, busy: their fields), or the Welford estimator under test with the samples added to it
    twin,                     \* a second run built from the same configuration and seed: its engine state, the ids its process had handed out before, the event its latest next() returned
    ctor,                     \* Simulation.__init__'s position: the statement it is at, and the configuration it was given
    last                      \* the latest call made on the engine: its name, argument and result

vars == <<event_queue, events, Event_ids, current_time, job_table, subscribers,
          interceptors, jobs, Job_ids, nodes, total_external_arrivals,
          total_completed_jobs, active, cnt, calls, raised, sched_log, manual,
          rng, twin, est, ctor, last>>

-----------------------------------------------------------------------------
(* Bounds of the model *)

\* the harness creates at most this many events
MaxSchedEvents == 2
\* the harness registers at most this many handlers
MaxHandlers == 3
\* the harness with the registrations as steps creates at most this many events
MaxRegEvents == 1
\* Simulation.max_events of the modelled configuration (cfg["max_events"])
MaxEvents == 2

\* Python's None (an event of an external arrival has job_id None)
None == 0 - 1

-----------------------------------------------------------------------------
(* Exact rational arithmetic standing for the float arithmetic of the source *)

RECURSIVE GCD(_, _)
GCD(a, b) == IF b = 0 THEN a ELSE GCD(b, a % b)

Abs(x) == IF x < 0 THEN 0 - x ELSE x

Norm(n, d) ==
    LET g == GCD(Abs(n), d)
    IN  IF n = 0 THEN <<0, 1>> ELSE <<n \div g, d \div g>>

R(n) == <<n, 1>>
RAdd(x, y) == Norm(x[1] * y[2] + y[1] * x[2], x[2] * y[2])
RSub(x, y) == Norm(x[1] * y[2] - y[1] * x[2], x[2] * y[2])
RMulInt(x, k) == Norm(x[1] * k, x[2])
RDivInt(x, k) == Norm(x[1], x[2] * k)
RLt(x, y) == x[1] * y[2] < y[1] * x[2]
RLe(x, y) == x[1] * y[2] <= y[1] * x[2]
RMax(x, y) == IF RLt(x, y) THEN y ELSE x

-----------------------------------------------------------------------------
(* Event (simulator/event.py) *)

Kinds == {"ARRIVAL", "DEPARTURE"}
NodeNames == {"A", "B", "P"}

\* Event.__init__: the id is the next value of Event._ids
NewEvent(id, time, event_type, server, job_id, job_class) ==
    [id |-> id, time |-> time, event_type |-> event_type, server |-> server,
     job_id |-> job_id, job_class |-> job_class, cancelled |-> FALSE]

\* a comparison that breaks ties against the creation order
EventLtTieReversed(a, b) ==
    IF a.time = b.time THEN a.id > b.id ELSE RLt(a.time, b.time)

\* a comparison whose tie-break looks at the parity of the absolute id
EventLtOddFirst(a, b) ==
    IF a.time = b.time
    THEN IF a.id % 2 = b.id % 2 THEN a.id < b.id ELSE a.id % 2 = 1
    ELSE RLt(a.time, b.time)

\* a comparison by creation order alone
EventLtById(a, b) == a.id < b.id

\* Event.__lt__
EventLt(a, b) ==
    IF a.time = b.time THEN a.id < b.id ELSE RLt(a.time, b.time)

-----------------------------------------------------------------------------
(* heapq on a list of event ids; evs gives the Event object of an id.      *)
(* Positions are 0-based as in the library, the list is 1-based.           *)

RECURSIVE SiftDown(_, _, _, _, _)
\* heapq._siftdown(heap, startpos, pos), newitem being heap[pos] on entry
SiftDown(heap, evs, startpos, pos, newitem) ==
    IF pos > startpos
    THEN LET parentpos == (pos - 1) \div 2
             parent == heap[parentpos + 1]
         IN  IF EventLt(evs[newitem], evs[parent])
             THEN SiftDown([heap EXCEPT ![pos + 1] = parent], evs, startpos,
                           parentpos, newitem)
             ELSE [heap EXCEPT ![pos + 1] = newitem]
    ELSE [heap EXCEPT ![pos + 1] = newitem]

RECURSIVE SiftUpLoop(_, _, _, _)
\* the while loop of heapq._siftup: bubbles the smaller child up until a leaf;
\* the result is <<heap, pos>>
SiftUpLoop(heap, evs, pos, endpos) ==
    LET childpos == 2 * pos + 1
        rightpos == childpos + 1
        c == IF rightpos < endpos
                /\ ~EventLt(evs[heap[childpos + 1]], evs[heap[rightpos + 1]])
             THEN rightpos ELSE childpos
    IN  IF childpos < endpos
        THEN SiftUpLoop([heap EXCEPT ![pos + 1] = heap[c + 1]], evs, c, endpos)
        ELSE <<heap, pos>>

\* heapq._siftup(heap, pos)
SiftUp(heap, evs, pos) ==
    LET newitem == heap[pos + 1]
        r == SiftUpLoop(heap, evs, pos, Len(heap))
    IN  SiftDown(r[1], evs, pos, r[2], newitem)

\* heapq.heappush(heap, item)
heappush(heap, evs, item) ==
    SiftDown(Append(heap, item), evs, 0, Len(heap), item)

\* heapq.heappop(heap): <<the heap afterwards, the item popped>>
heappop(heap, evs) ==
    LET lastelt == heap[Len(heap)]
        rest == SubSeq(heap, 1, Len(heap) - 1)
    IN  IF rest /= <<>>
        THEN <<SiftUp([rest EXCEPT ![1] = lastelt], evs, 0), heap[1]>>
        ELSE <<rest, lastelt>>

SeqToSet(s) == {s[i] : i \in 1..Len(s)}

-----------------------------------------------------------------------------
(* The engine's state as one record, so that a handler is a function from  *)
(* state to state and next() can run the handlers one after the other.     *)

State ==
    [event_queue |-> event_queue, events |-> events, Event_ids |-> Event_ids,
     current_time |-> current_time, job_table |-> job_table, jobs |-> jobs,
     Job_ids |-> Job_ids, nodes |-> nodes,
     total_external_arrivals |-> total_external_arrivals,
     total_completed_jobs |-> total_completed_jobs, active |-> active,
     calls |-> calls, raised |-> raised]

Commit(s) ==
    /\ event_queue' = s.event_queue
    /\ events' = s.events
    /\ Event_ids' = s.Event_ids
    /\ current_time' = s.current_time
    /\ job_table' = s.job_table
    /\ jobs' = s.jobs
    /\ Job_ids' = s.Job_ids
    /\ nodes' = s.nodes
    /\ total_external_arrivals' = s.total_external_arrivals
    /\ total_completed_jobs' = s.total_completed_jobs
    /\ active' = s.active
    /\ calls' = s.calls
    /\ raised' = s.raised

Commit_Init(s) ==
    /\ event_queue = s.event_queue
    /\ events = s.events
    /\ Event_ids = s.Event_ids
    /\ current_time = s.current_time
    /\ job_table = s.job_table
    /\ jobs = s.jobs
    /\ Job_ids = s.Job_ids
    /\ nodes = s.nodes
    /\ total_external_arrivals = s.total_external_arrivals
    /\ total_completed_jobs = s.total_completed_jobs
    /\ active = s.active
    /\ calls = s.calls
    /\ raised = s.raised

-----------------------------------------------------------------------------
(* NextEventScheduler (simulator/scheduler.py) *)

\* a schedule() that recomputes the time only for a positive delay
ScheduleTimePositiveOnly(now, time, delay) ==
    IF RLt(R(0), delay) THEN RAdd(now, delay) ELSE time

\* schedule(), line 23: the time the event gets; "if delay" is Python truthiness
ScheduleTime(now, time, delay) ==
    IF delay /= R(0) THEN RAdd(now, delay) ELSE time

\* Event(...) followed by schedule(event, delay): the event is created with the
\* next id of Event._ids, gets its time and is pushed on the heap
schedule(s, time, event_type, server, job_id, job_class, delay) ==
    LET id == s.Event_ids
        e == NewEvent(id, ScheduleTime(s.current_time, time, delay), event_type,
                      server, job_id, job_class)
        evs == s.events @@ (id :> e)
    IN  [s EXCEPT !.events = evs,
                  !.Event_ids = id + 1,
                  !.event_queue = heappush(s.event_queue, evs, id)]

\* a cancel that sets no flag
cancelNothing(s, id) == s

\* a cancel that sets the flag of any event, queued or not
cancelAnywhere(s, id) == [s EXCEPT !.events[id].cancelled = TRUE]

\* cancel(event): the flag is set only if the event is in the queue
cancel(s, id) ==
    IF id \in SeqToSet(s.event_queue)
    THEN [s EXCEPT !.events[id].cancelled = TRUE]
    ELSE s

\* a has_next() that only looks whether the queue is non-empty
has_nextNonEmpty(queue, evs) == queue /= <<>>

\* has_next()
has_next(queue, evs) == \E i \in 1..Len(queue) : ~evs[queue[i]].cancelled

\* a next() that dispatches cancelled events too
DiscardedNever(e) == FALSE

\* next(), line 36: "if ev.cancelled: continue"
Discarded(e) == e.cancelled

RECURSIVE PopLive(_, _)
\* the while loop of next(): pops until a non-cancelled event is found;
\* <<the heap afterwards, the id of that event or None>>
PopLive(heap, evs) ==
    IF heap = <<>>
    THEN <<heap, None>>
    ELSE LET p == heappop(heap, evs)
         IN  IF Discarded(evs[p[2]]) THEN PopLive(p[1], evs) ELSE p

-----------------------------------------------------------------------------
(* Node (simulator/node.py) *)

EmptyNode == [jobs |-> <<>>, last_update |-> R(0), next_departure |-> None]

\* a recomputation that charges the whole elapsed time to every resident
ShareWhole(elapsed, n) == elapsed

\* _update_remaining, line 40: the share of the elapsed time of each resident
Share(elapsed, n) == RDivInt(elapsed, n)

\* a reduction with the sign of the share slipped
ReduceGrow(rem, share) == RMax(R(0), RAdd(rem, share))

\* _update_remaining, lines 51-52: max(0.0, job.remaining_service - share)
Reduce(rem, share) == RMax(R(0), RSub(rem, share))

RECURSIVE SumRemaining(_, _)
\* the sum of remaining_service over the jobs js
SumRemaining(js, store) ==
    IF js = <<>>
    THEN R(0)
    ELSE RAdd(store[Head(js)].remaining_service, SumRemaining(Tail(js), store))

\* Node._update_remaining(now).  (The lookup mu = service_rates[job_class] of
\* line 50 has no effect: every resident's class has a rate at its node.)
UpdateRemaining(s, n, now) ==
    LET nd == s.nodes[n]
        share == Share(RSub(now, nd.last_update), Len(nd.jobs))
        resident == SeqToSet(nd.jobs)
    IN  IF nd.jobs = <<>>
        THEN [s EXCEPT !.nodes[n].last_update = now]
        ELSE [s EXCEPT !.nodes[n].last_update = now,
                       !.jobs = [j \in DOMAIN s.jobs |->
                                   IF j \in resident
                                   THEN [s.jobs[j] EXCEPT !.remaining_service =
                                            Reduce(s.jobs[j].remaining_service, share)]
                                   ELSE s.jobs[j]]]

\* a choice of the departing job that takes the first resident
MinJobFirst(js, store) == js[1]

\* min(self.jobs, key=lambda j: j.remaining_service): the first minimal job
MinJob(js, store) ==
    js[CHOOSE i \in 1..Len(js) :
         /\ \A k \in 1..Len(js) :
              RLe(store[js[i]].remaining_service, store[js[k]].remaining_service)
         /\ \A k \in 1..(i - 1) :
              store[js[k]].remaining_service /= store[js[i]].remaining_service]

\* a time to finish that forgets the number of residents
TtfNoCount(rem, n) == rem

\* _schedule_departure, line 110: ttf = min_job.remaining_service * len(self.jobs)
Ttf(rem, n) == RMulInt(rem, n)

\* Node._schedule_departure(scheduler)
ScheduleDeparture(s, n) ==
    LET nd == s.nodes[n]
        s1 == IF nd.next_departure /= None
              THEN [cancel(s, nd.next_departure) EXCEPT !.nodes[n].next_departure = None]
              ELSE s
        mj == MinJob(nd.jobs, s.jobs)
        ttf == Ttf(s.jobs[mj].remaining_service, Len(nd.jobs))
        s2 == schedule(s1, RAdd(s.current_time, ttf), "DEPARTURE", n, mj,
                       s.jobs[mj].job_class, R(0))
    IN  IF nd.jobs = <<>>
        THEN s1
        ELSE [s2 EXCEPT !.nodes[n].next_departure = s1.Event_ids]

\* a membership test that takes every job for a resident
ResidentAlways(j, js) == TRUE

\* "job in self.jobs" (Node.departure, line 77; Simulation._on_departure, line 100)
Resident(j, js) == j \in SeqToSet(js)

\* Node.arrival(job, scheduler)
NodeArrival(s, n, j) ==
    LET s1 == UpdateRemaining(s, n, s.current_time)
        s2 == [s1 EXCEPT !.nodes[n].jobs = Append(@, j)]
    IN  ScheduleDeparture(s2, n)

\* a departure that leaves the job in the resident list
WithoutKeep(js, j) == js

\* Node.departure, line 81: [j for j in self.jobs if j.id != job.id]
Without(js, j) == SelectSeq(js, LAMBDA x : x /= j)

\* Node.departure(job, scheduler)
NodeDeparture(s, n, j) ==
    LET s1 == UpdateRemaining(s, n, s.current_time)
        s2 == [s1 EXCEPT !.nodes[n].jobs = Without(@, j)]
    IN  IF ~Resident(j, s.nodes[n].jobs)
        THEN s
        ELSE ScheduleDeparture(s2, n)

-----------------------------------------------------------------------------
(* The configuration of the simulated network: the workflow A-B-A-P-A of   *)
(* the Simulation docstring, one class per visit.                          *)

EXIT == <<"EXIT", 0>>

\* cfg["routing_matrix"] of the workflow: (node, class) -> (next node, next
\* class) | EXIT
Workflow ==
    (<<"A", 1>> :> <<"B", 1>>) @@ (<<"B", 1>> :> <<"A", 2>>) @@
    (<<"A", 2>> :> <<"P", 2>>) @@ (<<"P", 2>> :> <<"A", 3>>) @@
    (<<"A", 3>> :> EXIT)

\* self.routing_matrix, the table Simulation.__init__ parsed from the cfg it
\* was given; Network and the estimators hold the same object
routing_matrix == ctor.routing_matrix

\* the defaults target_node="A", job_class=1 of ArrivalsGenerator
GenNode == "A"
GenClass == 1

\* the values idfExponential(1/rate, u) yields for the inter-arrival times
IaSamples == {R(1), R(2)}
\* the values idfExponential(mean, u) yields for the service requirement of a
\* visit, per (node, class) of cfg["service_rates"]
SvcSamples ==
    (<<"A", 1>> :> {R(1), R(2)}) @@ (<<"B", 1>> :> {R(1)}) @@
    (<<"A", 2>> :> {R(1)}) @@ (<<"P", 2>> :> {R(1)}) @@
    (<<"A", 3>> :> {R(1), R(2)})
\* a draw nobody reads
Unused == R(0 - 1)

\* Simulation._EPS, scaled to the model's time unit
EPS == <<1, 4>>
\* the time from which a float current_time absorbs _EPS (current_time + _EPS
\* = current_time for a double of magnitude 2^14 or more), scaled likewise
EpsAbsorbedFrom == R(3)

\* scheduler.current_time + self._EPS in float arithmetic
AddEps(t) == IF RLe(EpsAbsorbedFrom, t) THEN t ELSE RAdd(t, EPS)

-----------------------------------------------------------------------------
(* The handlers *)

\* a generator that goes on after it was switched off
GenTriggersInactive(act, e) == e.job_id = None /\ e.server = GenNode

\* _on_arrival, line 39: self.active and ev.job_id is None and ev.server == self.node
GenTriggers(act, e) == act /\ e.job_id = None /\ e.server = GenNode

\* ArrivalsGenerator._on_arrival(ev, sched); ia is the sampled inter-arrival time
GenOnArrival(s, e, ia) ==
    IF GenTriggers(s.active, e)
    THEN schedule(s, RAdd(s.current_time, ia), "ARRIVAL", GenNode, None,
                  GenClass, R(0))
    ELSE s

\* Job.__init__: the id is the next value of Job._ids
NewJob(id, job_class, arrival_time, service_time) ==
    [id |-> id, job_class |-> job_class, arrival_time |-> arrival_time,
     remaining_service |-> service_time]

\* Simulation._on_arrival(event, scheduler); svc is the sampled service requirement
SimOnArrival(s, e, svc) ==
    LET j == s.Job_ids
        sNew == [s EXCEPT !.jobs = @ @@ (j :> NewJob(j, e.job_class, e.time, svc)),
                          !.Job_ids = j + 1,
                          !.total_external_arrivals = @ + 1,
                          !.job_table = @ \cup {j}]
    IN  IF e.server \notin DOMAIN s.nodes
        THEN [s EXCEPT !.raised = TRUE]
        ELSE IF e.job_id = None
        THEN NodeArrival(sNew, e.server, j)
        ELSE IF e.job_id \notin s.job_table
        THEN [s EXCEPT !.raised = TRUE]
        ELSE NodeArrival(s, e.server, e.job_id)

\* Simulation._on_departure(event, scheduler); svc is the service requirement
\* sampled for the next visit
SimOnDeparture(s, e, svc) ==
    LET j == e.job_id
        s1 == NodeDeparture(s, e.server, j)
        key == <<e.server, e.job_class>>
        nxt == routing_matrix[key]
        s2 == [s1 EXCEPT !.jobs[j].job_class = nxt[2],
                         !.jobs[j].remaining_service = svc]
    IN  IF e.server \notin DOMAIN s.nodes \/ j \notin s.job_table
        THEN [s EXCEPT !.raised = TRUE]
        ELSE IF ~Resident(j, s.nodes[e.server].jobs)
        THEN s
        ELSE IF key \notin DOMAIN routing_matrix
        THEN [s1 EXCEPT !.raised = TRUE]
        ELSE IF nxt = EXIT
        THEN [s1 EXCEPT !.total_completed_jobs = @ + 1]
        ELSE schedule(s2, AddEps(s.current_time), "ARRIVAL", nxt[1], j, nxt[2], R(0))

\* the call handler(ev, self) of next(): the handlers of the test harness only
\* report; the call is logged with the time the handler sees
Invoke(h, s, id, d) ==
    LET e == s.events[id]
        sl == [s EXCEPT !.calls = Append(@, <<h, id, s.current_time>>)]
    IN  CASE h = "ArrivalsGenerator._on_arrival" -> GenOnArrival(sl, e, d.ia)
          [] h = "Simulation._on_arrival" -> SimOnArrival(sl, e, d.svc)
          [] h = "Simulation._on_departure" -> SimOnDeparture(sl, e, d.svc)
          [] OTHER -> sl

RECURSIVE RunHandlers(_, _, _, _)
\* the two for loops of next(); a handler that raises ends the call
RunHandlers(hs, s, id, d) ==
    IF hs = <<>> \/ s.raised
    THEN s
    ELSE RunHandlers(Tail(hs), Invoke(Head(hs), s, id, d), id, d)

\* a dispatch that runs the subscribers before the interceptors
HandlersOfSubscribersFirst(ics, sbs, kind) == sbs[kind] \o ics[kind]

\* next(), lines 40-45: the handlers of the event's kind, interceptors first
HandlersOf(ics, sbs, kind) == ics[kind] \o sbs[kind]

\* next(), line 37: self.current_time = ev.time
DispatchTime(now, time) == time

\* NextEventScheduler.next(): <<the state afterwards, the id returned or None>>
next(s, ics, sbs, d) ==
    LET p == PopLive(s.event_queue, s.events)
        id == p[2]
        e == s.events[id]
        s1 == [s EXCEPT !.event_queue = p[1],
                        !.current_time = DispatchTime(s.current_time, e.time),
                        !.calls = <<>>]
    IN  IF id = None
        THEN <<[s EXCEPT !.event_queue = p[1], !.calls = <<>>], None>>
        ELSE <<RunHandlers(HandlersOf(ics, sbs, e.event_type), s1, id, d), id>>

-----------------------------------------------------------------------------
(* Initial states *)

\* NextEventScheduler.__init__ and the counters of a fresh process
Fresh ==
    [event_queue |-> <<>>, events |-> <<>>, Event_ids |-> 0,
     current_time |-> R(0), job_table |-> {}, jobs |-> <<>>, Job_ids |-> 0,
     nodes |-> [n \in NodeNames |-> EmptyNode],
     total_external_arrivals |-> 0, total_completed_jobs |-> 0,
     active |-> TRUE, calls |-> <<>>, raised |-> FALSE]

NoHandlers == [k \in Kinds |-> <<>>]

\* the bare scheduler: NextEventScheduler()
InitRegister ==
    /\ Commit_Init(Fresh)
    /\ subscribers = NoHandlers
    /\ interceptors = NoHandlers
    /\ cnt = 0
    /\ sched_log = <<>>
    /\ manual = [phase |-> "run"]
    /\ rng = <<>>
    /\ twin = <<>>
    /\ est = <<>>
    /\ ctor = [pc |-> 0, routing_matrix |-> Workflow]
    /\ last = [op |-> "init"]

\* the scheduler of the test harness after its registrations (test_scheduler.py,
\* lines 21-25): one interceptor and one subscriber, each for both kinds
InitSched ==
    /\ Commit_Init(Fresh)
    /\ subscribers = [k \in Kinds |-> <<"subscriber_example">>]
    /\ interceptors = [k \in Kinds |-> <<"interceptor_example">>]
    /\ cnt = 0
    /\ sched_log = <<>>
    /\ manual = [phase |-> "run"]
    /\ rng = <<>>
    /\ twin = <<>>
    /\ est = <<>>
    /\ ctor = [pc |-> 0, routing_matrix |-> Workflow]
    /\ last = [op |-> "init"]

\* The engine as Simulation.__init__ wires it (lines 60-134): the generator
\* subscribes and schedules the first external ARRIVAL at time 0, then the two
\* global handlers subscribe.  (The estimators of lines 137-155 are built in
\* SpecConstruct.)
InitEngine ==
    /\ Commit_Init(schedule(Fresh, R(0), "ARRIVAL", GenNode, None, GenClass, R(0)))
    /\ subscribers =
         [k \in Kinds |->
            IF k = "ARRIVAL"
            THEN <<"ArrivalsGenerator._on_arrival", "Simulation._on_arrival">>
            ELSE <<"Simulation._on_departure">>]
    /\ interceptors = NoHandlers
    /\ cnt = 0
    /\ sched_log = <<>>
    /\ manual = [phase |-> "run"]
    /\ rng = <<>>
    /\ ctor = [pc |-> 0, routing_matrix |-> Workflow]
    /\ last = [op |-> "init"]

\* one run on its own
Init == InitEngine /\ twin = <<>> /\ est = <<>>

-----------------------------------------------------------------------------
(* The test harness of the scheduler (test/test_scheduler.py): handlers    *)
(* are registered, events are built and scheduled with a delay, events are *)
(* cancelled, and the queue is drained with has_next() / next().           *)

\* the reporting handlers of the harness, in the order they are registered
HandlerNames == <<"h1", "h2", "h3", "h4", "h5", "h6", "h7", "h8">>
Registered ==
    Len(interceptors["ARRIVAL"]) + Len(interceptors["DEPARTURE"])
    + Len(subscribers["ARRIVAL"]) + Len(subscribers["DEPARTURE"])

\* the times the harness builds its events with, and the delays it gives
SchedTimes == {R(0), R(1)}
Delays == {R(0 - 1), R(0), R(2)}
NoDraw == [ia |-> R(1), svc |-> R(1)]

SimUnchanged == UNCHANGED <<cnt, manual, rng, twin, est, ctor>>

\* scheduler.intercept(event_type, handler)
Intercept(k) ==
    /\ Registered < MaxHandlers
    /\ interceptors' = [interceptors EXCEPT ![k] = Append(@, HandlerNames[Registered + 1])]
    /\ last' = [op |-> "intercept"]
    /\ Commit(State)
    /\ UNCHANGED <<subscribers, sched_log>>
    /\ SimUnchanged

\* scheduler.subscribe(event_type, handler)
Subscribe(k) ==
    /\ Registered < MaxHandlers
    /\ subscribers' = [subscribers EXCEPT ![k] = Append(@, HandlerNames[Registered + 1])]
    /\ last' = [op |-> "subscribe"]
    /\ Commit(State)
    /\ UNCHANGED <<interceptors, sched_log>>
    /\ SimUnchanged

\* e = Event(time, kind, ...); scheduler.schedule(e, delay)
ScheduleCall(time, kind, delay) ==
    /\ Commit(schedule(State, time, kind, "A", None, 1, delay))
    /\ sched_log' = sched_log @@
                      (Event_ids :> [time |-> time, delay |-> delay, now |-> current_time])
    /\ last' = [op |-> "schedule", arg |-> Event_ids]
    /\ UNCHANGED <<subscribers, interceptors>>
    /\ SimUnchanged

\* scheduler.cancel(e), for any event built so far
CancelCall(id) ==
    /\ Commit(cancel(State, id))
    /\ last' = [op |-> "cancel", arg |-> id]
    /\ UNCHANGED <<subscribers, interceptors, sched_log>>
    /\ SimUnchanged

\* scheduler.has_next()
HasNextCall ==
    /\ last' = [op |-> "has_next", ret |-> has_next(event_queue, events)]
    /\ Commit(State)
    /\ UNCHANGED <<subscribers, interceptors, sched_log>>
    /\ SimUnchanged

\* scheduler.next()
NextCall ==
    /\ LET r == next(State, interceptors, subscribers, NoDraw)
       IN  /\ Commit(r[1])
           /\ last' = [op |-> "next", ret |-> r[2]]
    /\ UNCHANGED <<subscribers, interceptors, sched_log>>
    /\ SimUnchanged

NextSched ==
    \/ \E time \in SchedTimes, kind \in Kinds, delay \in Delays :
         Event_ids < MaxSchedEvents /\ ScheduleCall(time, kind, delay)
    \/ \E id \in DOMAIN events : CancelCall(id)
    \/ HasNextCall
    \/ NextCall

SpecSched == InitSched /\ [][NextSched]_vars

\* the same harness with the registrations as steps, and events all built
\* with time 0
NextRegister ==
    \/ \E k \in Kinds : Intercept(k)
    \/ \E k \in Kinds : Subscribe(k)
    \/ \E kind \in Kinds, delay \in {R(0), R(2)} :
         Event_ids < MaxRegEvents /\ ScheduleCall(R(0), kind, delay)
    \/ \E id \in DOMAIN events : CancelCall(id)
    \/ NextCall

SpecRegister == InitRegister /\ [][NextRegister]_vars

-----------------------------------------------------------------------------
(* Simulation.run (simulator/simulation.py) *)

\* the inter-arrival times the generator can draw while handling event id
IaDraws(id) ==
    IF /\ id /= None
       /\ events[id].event_type = "ARRIVAL"
       /\ GenTriggers(active, events[id])
    THEN IaSamples
    ELSE {Unused}

\* the service requirements the global handler can draw while handling event
\* id: of the new job on an external arrival, of the next visit on a routed
\* departure
SvcDraws(id) ==
    LET e == events[id]
        key == <<e.server, e.job_class>>
    IN  IF id = None
        THEN {Unused}
        ELSE IF e.event_type = "ARRIVAL"
        THEN (IF e.job_id = None THEN SvcSamples[key] ELSE {Unused})
        ELSE IF key \in DOMAIN routing_matrix /\ routing_matrix[key] /= EXIT
        THEN SvcSamples[routing_matrix[key]]
        ELSE {Unused}

\* a run() that never switches the arrivals off
SwitchOffNever(c) == FALSE

\* run(), line 168: self.max_events and cnt >= self.max_events
SwitchOff(c) == MaxEvents /= 0 /\ c >= MaxEvents

\* one turn of the while loop of run(): next(), cnt += 1, and the arrivals are
\* switched off once max_events events have been dispatched
RunStep ==
    /\ ~raised
    /\ has_next(event_queue, events)
    /\ LET id == PopLive(event_queue, events)[2]
       IN  \E ia \in IaDraws(id), svc \in SvcDraws(id) :
             LET r == next(State, interceptors, subscribers, [ia |-> ia, svc |-> svc])
             IN  /\ Commit([r[1] EXCEPT !.active =
                               IF SwitchOff(cnt + 1) THEN FALSE ELSE @])
                 /\ last' = [op |-> "next", ret |-> r[2], ia |-> ia, svc |-> svc,
                             residents |-> Len(nodes[events[id].server].jobs),
                             before |-> SumRemaining(nodes[events[id].server].jobs, jobs)]
    /\ cnt' = cnt + 1
    /\ UNCHANGED <<subscribers, interceptors, sched_log, manual, rng, ctor>>

Next == RunStep /\ UNCHANGED <<twin, est>>

Spec == Init /\ [][Next]_vars

\* a turn of the while loop of run() as far as its guard and its counter go:
\* every RunStep is one, and it is enabled exactly when RunStep is
RunTurn == ~raised /\ has_next(event_queue, events) /\ cnt' = cnt + 1

\* run() is one thread: while has_next() holds, the loop takes its next turn
SpecFair == Spec /\ WF_cnt(RunTurn)

-----------------------------------------------------------------------------
(* The orphan-event test on a running simulation: the test cancels a       *)
(* node's pending departure through the scheduler, and calls the DEPARTURE *)
(* handler directly with a DEPARTURE event created earlier.                *)

\* scheduler.cancel(node._next_departure)
CancelPending(n) ==
    /\ manual.phase = "run"
    /\ nodes[n].next_departure /= None
    /\ Commit(cancel(State, nodes[n].next_departure))
    /\ last' = [op |-> "cancel", arg |-> nodes[n].next_departure]
    /\ manual' = [phase |-> "cancelled", ev |-> nodes[n].next_departure]
    /\ UNCHANGED <<subscribers, interceptors, sched_log, cnt, rng, twin, est, ctor>>

\* _on_departure(event, scheduler), called directly: with the event the test
\* has just cancelled, or else with any DEPARTURE event created so far
Retrigger(id) ==
    /\ manual.phase /= "done"
    /\ manual.phase = "cancelled" => id = manual.ev
    /\ ~raised
    /\ events[id].event_type = "DEPARTURE"
    /\ \E svc \in SvcDraws(id) : Commit(SimOnDeparture(State, events[id], svc))
    /\ last' = [op |-> "_on_departure", arg |-> id,
                resident |-> events[id].job_id \in SeqToSet(nodes[events[id].server].jobs),
                pending |-> nodes[events[id].server].next_departure = id,
                cancelled |-> events[id].cancelled]
    /\ manual' = [phase |-> "done"]
    /\ UNCHANGED <<subscribers, interceptors, sched_log, cnt, rng, twin, est, ctor>>

\* the simulation runs until the test steps in
RunStepOrphan == manual.phase = "run" /\ RunStep /\ UNCHANGED <<twin, est>>

NextOrphan ==
    \/ RunStepOrphan
    \/ \E n \in NodeNames : CancelPending(n)
    \/ \E id \in DOMAIN events : Retrigger(id)

SpecOrphan == Init /\ [][NextOrphan]_vars

-----------------------------------------------------------------------------
(* Properties of the scheduler *)

\* the scheduling order (time, id)
Before(a, b) == RLt(a.time, b.time) \/ (a.time = b.time /\ a.id < b.id)

Queued == SeqToSet(event_queue)
LiveQueued == {id \in Queued : ~events[id].cancelled}

\* C1: next() dispatches, among the events in the queue, the non-cancelled
\* one that is smallest under (time, id); events with the same time go in
\* creation order
C1_NextDispatchesSmallest ==
    [][last'.op = "next" =>
         IF LiveQueued = {}
         THEN last'.ret = None
         ELSE /\ last'.ret \in LiveQueued
              /\ \A o \in LiveQueued \ {last'.ret} :
                   Before(events[last'.ret], events[o])]_vars

\* an event was dispatched while a later-created live event of the same time
\* stayed queued
C1_Witness ==
    /\ last.op = "next"
    /\ last.ret /= None
    /\ \E o \in LiveQueued : events[o].time = events[last.ret].time /\ last.ret < o

\* C2: a cancelled event is never passed to a handler nor returned by
\* next(); it is dropped from the queue when popped, and next() goes on to
\* the following event
C2_CancelledNeverDispatched ==
    [][last'.op = "next" =>
         /\ last'.ret /= None => ~events[last'.ret].cancelled
         /\ \A i \in 1..Len(calls') :
              calls'[i][2] = last'.ret /\ ~events[calls'[i][2]].cancelled
         /\ \A c \in Queued :
              (events[c].cancelled
                 /\ (last'.ret = None \/ Before(events[c], events[last'.ret])))
              => c \notin SeqToSet(event_queue')
         /\ LiveQueued /= {} => last'.ret /= None]_vars

\* next() has returned an event after dropping a cancelled one that was
\* ordered before it, and handlers ran
C2_Witness ==
    /\ last.op = "next"
    /\ last.ret /= None
    /\ calls /= <<>>
    /\ \E c \in DOMAIN events :
         events[c].cancelled /\ c \notin Queued /\ Before(events[c], events[last.ret])

\* C3: has_next() is true iff a non-cancelled event is in the queue, and
\* changes nothing
C3_HasNext ==
    [][last'.op = "has_next" =>
         /\ last'.ret <=> (\E id \in Queued : ~events[id].cancelled)
         /\ UNCHANGED <<event_queue, events, Event_ids, current_time, job_table,
                        subscribers, interceptors, jobs, Job_ids, nodes,
                        total_external_arrivals, total_completed_jobs, active,
                        cnt, calls, raised>>]_vars

\* has_next() has answered false on a queue that still holds events
C3_Witness ==
    /\ last.op = "has_next"
    /\ ~last.ret
    /\ event_queue /= <<>>

\* C4: for the event it pops, next() sets current_time to the event's time,
\* then calls the interceptors of the event's kind in registration order, then
\* the subscribers of that kind in registration order, each once, and returns
\* the event; with no live event it returns None, calls nothing and leaves
\* current_time alone
C4_DispatchOrder ==
    [][last'.op = "next" =>
         IF last'.ret = None
         THEN calls' = <<>> /\ current_time' = current_time
         ELSE LET e == events[last'.ret]
                  hs == interceptors[e.event_type] \o subscribers[e.event_type]
              IN  /\ current_time' = e.time
                  /\ calls' = [i \in 1..Len(hs) |-> <<hs[i], e.id, e.time>>]]_vars

\* an event was dispatched to an interceptor and a subscriber of its kind, the
\* subscriber having been registered first, while the other kind has a handler
\* too, and the time moved
C4_Witness ==
    /\ last.op = "next"
    /\ last.ret /= None
    /\ current_time /= R(0)
    /\ LET k == events[last.ret].event_type
       IN  /\ interceptors[k] = <<"h2">>
           /\ subscribers[k] = <<"h1">>
           /\ Len(calls) = 2
           /\ \E o \in Kinds \ {k} : interceptors[o] \o subscribers[o] /= <<>>

\* C5 as stated: the time is recomputed for a positive delay only
C5_Original ==
    last.op = "schedule" =>
        LET l == sched_log[last.arg]
        IN  events[last.arg].time =
               (IF RLt(R(0), l.delay) THEN RAdd(l.now, l.delay) ELSE l.time)

\* C5 (amended): schedule(event, delay) sets event.time to current_time +
\* delay for every non-zero delay, a negative one too, and leaves it unchanged
\* for delay 0, then inserts the event; an event scheduled with delay d > 0 is
\* dispatched at the time of the call + d whatever time it was built with
C5_ScheduleNonZeroDelay ==
    /\ last.op = "schedule" =>
         LET l == sched_log[last.arg]
         IN  /\ events[last.arg].time =
                  (IF l.delay /= R(0) THEN RAdd(l.now, l.delay) ELSE l.time)
             /\ last.arg \in Queued
    /\ (last.op = "next" /\ last.ret /= None) =>
         LET l == sched_log[last.ret]
         IN  RLt(R(0), l.delay) => current_time = RAdd(l.now, l.delay)

\* an event built with another time is dispatched at the time of its
\* scheduling plus its positive delay, after an event was scheduled with a
\* negative delay
C5_Witness ==
    /\ last.op = "next"
    /\ last.ret /= None
    /\ RLt(R(0), sched_log[last.ret].delay)
    /\ sched_log[last.ret].time /= events[last.ret].time
    /\ \E o \in DOMAIN sched_log :
         /\ RLt(sched_log[o].delay, R(0))
         /\ events[o].time = RAdd(sched_log[o].now, sched_log[o].delay)

-----------------------------------------------------------------------------
(* Properties of the nodes and of the DEPARTURE handler *)

\* C6: Node.arrival and Node.departure at time t first bring the residents
\* current (each of the N >= 1 residents gets max(0, remaining_service -
\* (t - last_update)/N), last_update becomes t) and only then add or remove
\* the job; the arriving job is not reduced, and no remaining_service is
\* negative
C6_RecomputeThenMembership ==
    [][(last'.op = "next" /\ last'.ret /= None) =>
         LET e == events[last'.ret]
             n == e.server
             t == e.time
             old == nodes[n].jobs
             share == RDivInt(RSub(t, nodes[n].last_update), Len(old))
             Current(r) == RMax(R(0), RSub(jobs[r].remaining_service, share))
             j == IF e.job_id = None THEN Job_ids ELSE e.job_id
         IN  /\ nodes'[n].last_update = t
             /\ \A r \in SeqToSet(old) \ {j} :
                  jobs'[r].remaining_service = Current(r)
             /\ IF e.event_type = "ARRIVAL"
                THEN /\ nodes'[n].jobs = Append(old, j)
                     /\ jobs'[j].remaining_service =
                          (IF e.job_id = None THEN last'.svc
                           ELSE jobs[j].remaining_service)
                ELSE /\ j \in SeqToSet(old)
                     /\ nodes'[n].jobs = SelectSeq(old, LAMBDA x : x /= j)
                     /\ jobs'[j].remaining_service =
                          (IF routing_matrix[<<n, e.job_class>>] = EXIT
                           THEN Current(j) ELSE last'.svc)
             /\ \A r \in DOMAIN jobs' : RLe(R(0), jobs'[r].remaining_service)]_vars

\* a job has arrived at a node after a positive time since the node's last
\* recomputation, joining a resident whose remaining_service was reduced to a
\* positive fraction
C6_Witness ==
    /\ last.op = "next"
    /\ last.ret /= None
    /\ events[last.ret].event_type = "ARRIVAL"
    /\ last.residents >= 1
    /\ LET nd == nodes[events[last.ret].server]
       IN  /\ Len(nd.jobs) = last.residents + 1
           /\ nd.last_update = current_time
           /\ \E i \in 1..last.residents :
                /\ jobs[nd.jobs[i]].remaining_service[2] > 1
                /\ RLt(SumRemaining(SubSeq(nd.jobs, 1, last.residents), jobs), last.before)

\* C7: after a membership change at a node at time t the node schedules, if
\* N' >= 1 jobs are resident, exactly one DEPARTURE for the first resident of
\* minimal remaining_service, with that job's id and class and the node's
\* name, at t + remaining_service_min * N'; if none is resident, no DEPARTURE
C7_DepartureScheduled ==
    [][LET created == {d \in DOMAIN events' \ DOMAIN events :
                         events'[d].event_type = "DEPARTURE"}
       IN  /\ \A d \in created :
                nodes'[events'[d].server].jobs /= nodes[events'[d].server].jobs
           /\ \A n \in NodeNames :
                nodes'[n].jobs /= nodes[n].jobs =>
                  LET js == nodes'[n].jobs
                      mine == {d \in created : events'[d].server = n}
                      rem(i) == jobs'[js[i]].remaining_service
                  IN  IF js = <<>>
                      THEN mine = {}
                      ELSE \E i \in 1..Len(js) :
                             /\ \A k \in 1..Len(js) : RLe(rem(i), rem(k))
                             /\ \A k \in 1..(i - 1) : RLt(rem(i), rem(k))
                             /\ mine = {nodes'[n].next_departure}
                             /\ nodes'[n].next_departure \in SeqToSet(event_queue')
                             /\ events'[nodes'[n].next_departure] =
                                  [id |-> nodes'[n].next_departure,
                                   time |-> RAdd(current_time', RMulInt(rem(i), Len(js))),
                                   event_type |-> "DEPARTURE",
                                   server |-> n,
                                   job_id |-> js[i],
                                   job_class |-> jobs'[js[i]].job_class,
                                   cancelled |-> FALSE]]_vars

\* a node holds two jobs with the same positive remaining_service and its
\* pending departure, just scheduled, is for the first of them at
\* current_time + 2 * remaining_service
C7_Witness ==
    /\ last.op = "next"
    /\ last.ret /= None
    /\ LET nd == nodes[events[last.ret].server]
       IN  /\ Len(nd.jobs) = 2
           /\ jobs[nd.jobs[1]].remaining_service = jobs[nd.jobs[2]].remaining_service
           /\ RLt(R(0), jobs[nd.jobs[1]].remaining_service)
           /\ nd.next_departure /= None
           /\ nd.next_departure \notin DOMAIN [i \in 0..(last.ret) |-> i]
           /\ events[nd.next_departure].job_id = nd.jobs[1]
           /\ events[nd.next_departure].time =
                RAdd(current_time, RMulInt(jobs[nd.jobs[1]].remaining_service, 2))

\* what the DEPARTURE handler may not touch when it ignores an event
HandlerFrame ==
    <<event_queue, events, Event_ids, current_time, job_table, jobs, Job_ids,
      nodes, total_external_arrivals, total_completed_jobs, active, raised>>

\* C8: the DEPARTURE handler, given an event whose job is not resident at the
\* event's node, raises nothing and changes nothing
C8_StaleDepartureIgnored ==
    [][(last'.op = "_on_departure" /\ ~last'.resident) =>
         ~raised' /\ UNCHANGED HandlerFrame]_vars

\* the handler was called with the DEPARTURE of a job that has since left the
\* event's node
C8_Witness ==
    /\ last.op = "_on_departure"
    /\ ~last.resident
    /\ events[last.arg].job_id \in job_table
    /\ events[last.arg].job_id \notin SeqToSet(nodes[events[last.arg].server].jobs)

\* C9: the DEPARTURE handler, given the pending departure of a node after the
\* scheduler has cancelled it, raises nothing and changes nothing: the job
\* stays resident, no counter changes, nothing is scheduled
C9_CancelledPendingIgnored ==
    [][(last'.op = "_on_departure" /\ last'.cancelled /\ last'.pending) =>
         ~raised' /\ UNCHANGED HandlerFrame]_vars

\* C10 as stated: the sum of remaining_service over a node's residents never
\* increases from one recomputation to the next, and is never negative
C10_Original ==
    [][\A n \in NodeNames :
         /\ RLe(SumRemaining(nodes'[n].jobs, jobs'), SumRemaining(nodes[n].jobs, jobs))
         /\ RLe(R(0), SumRemaining(nodes'[n].jobs, jobs'))]_vars

\* C10 (amended): from one recomputation of a node to the next, the
\* remaining_service of every job that stays resident does not increase, and
\* the sum over the residents grows by no more than the remaining_service of
\* the job admitted in between (so it does not increase when none is
\* admitted); the sum is never negative
C10_SumGrowsOnlyByAdmission ==
    [][\A n \in NodeNames :
         LET old == nodes[n].jobs
             new == nodes'[n].jobs
             admitted == SelectSeq(new, LAMBDA x : x \notin SeqToSet(old))
         IN  /\ \A j \in SeqToSet(old) \cap SeqToSet(new) :
                  RLe(jobs'[j].remaining_service, jobs[j].remaining_service)
             /\ RLe(SumRemaining(new, jobs'),
                    RAdd(SumRemaining(old, jobs), SumRemaining(admitted, jobs')))
             /\ RLe(R(0), SumRemaining(new, jobs'))]_vars

\* an arrival has raised the sum of a node that held work, although the
\* residents' share of the elapsed time was taken off
C10_Witness ==
    /\ last.op = "next"
    /\ last.ret /= None
    /\ events[last.ret].event_type = "ARRIVAL"
    /\ last.residents >= 1
    /\ LET nd == nodes[events[last.ret].server]
       IN  /\ RLt(last.before, SumRemaining(nd.jobs, jobs))
           /\ RLt(SumRemaining(SubSeq(nd.jobs, 1, last.residents), jobs), last.before)

-----------------------------------------------------------------------------
(* Properties of the routing, of the generator and of the run loop *)

\* the events a step has created, of a kind
Created(kind) ==
    {d \in DOMAIN events' \ DOMAIN events : events'[d].event_type = kind}

\* the nodes at which job j is resident
NodesOf(j) == {n \in NodeNames : j \in SeqToSet(nodes[n].jobs)}

\* C11: the DEPARTURE of a resident job removes the job from the node; when
\* the routing table gives (next_node, next_class), the job's class becomes
\* next_class, its remaining_service is the fresh sample, and exactly one
\* ARRIVAL with the job's id is scheduled at next_node at a time strictly later
\* than the current time; when it gives EXIT, total_completed_jobs grows by
\* one and no ARRIVAL is scheduled
C11_RoutedDeparture ==
    [][(/\ last'.op = "next"
        /\ last'.ret /= None
        /\ events[last'.ret].event_type = "DEPARTURE"
        /\ events[last'.ret].job_id \in SeqToSet(nodes[events[last'.ret].server].jobs)) =>
         LET e == events[last'.ret]
             j == e.job_id
             nxt == routing_matrix[<<e.server, e.job_class>>]
         IN  /\ j \notin SeqToSet(nodes'[e.server].jobs)
             /\ IF nxt = EXIT
                THEN /\ total_completed_jobs' = total_completed_jobs + 1
                     /\ Created("ARRIVAL") = {}
                ELSE /\ total_completed_jobs' = total_completed_jobs
                     /\ jobs'[j].job_class = nxt[2]
                     /\ jobs'[j].remaining_service = last'.svc
                     /\ \E a \in Created("ARRIVAL") :
                          /\ Created("ARRIVAL") = {a}
                          /\ a \in SeqToSet(event_queue')
                          /\ events'[a].job_id = j
                          /\ events'[a].server = nxt[1]
                          /\ events'[a].job_class = nxt[2]
                          /\ RLt(current_time', events'[a].time)]_vars

\* the jobs that have left the network: their DEPARTURE from a (node, class)
\* routed to EXIT has been dispatched (popped, and never cancelled)
Exited ==
    {events[d].job_id : d \in
       {x \in DOMAIN events :
          /\ events[x].event_type = "DEPARTURE"
          /\ routing_matrix[<<events[x].server, events[x].job_class>>] = EXIT
          /\ ~events[x].cancelled
          /\ x \notin Queued}}

\* C12: every job is resident at no more than one node and is there once,
\* and a job that has exited is resident nowhere
C12_ResidentAtMostOnce ==
    /\ \A j \in DOMAIN jobs : Cardinality(NodesOf(j)) <= 1
    /\ \A n \in NodeNames :
         \A i, k \in 1..Len(nodes[n].jobs) :
           nodes[n].jobs[i] = nodes[n].jobs[k] => i = k
    /\ \A j \in Exited : NodesOf(j) = {}

\* a job has exited after its three visits of A while a job admitted later is
\* resident at a node it was routed to
C12_Witness ==
    /\ total_completed_jobs >= 1
    /\ \E j \in Exited : jobs[j].job_class = 3
    /\ \E j \in DOMAIN jobs :
         /\ j \notin Exited
         /\ jobs[j].job_class > 1
         /\ Cardinality(NodesOf(j)) = 1

\* the external ARRIVALs that are pending: queued, not cancelled, job_id None
PendingExternal ==
    {a \in LiveQueued : events[a].event_type = "ARRIVAL" /\ events[a].job_id = None}

\* C13: the construction leaves exactly one event, an ARRIVAL at time 0 with
\* job_id None at the generator's node; each dispatched ARRIVAL with job_id
\* None at that node, the generator being active, schedules exactly one
\* further external ARRIVAL, at current_time + the sample; any other dispatched
\* event schedules no external ARRIVAL; while the generator is active exactly
\* one external ARRIVAL is pending between events
C13_OnePendingExternal ==
    /\ [](last.op = "init" =>
            /\ Queued = DOMAIN events
            /\ \E a \in DOMAIN events :
                 /\ DOMAIN events = {a}
                 /\ events[a] = NewEvent(a, R(0), "ARRIVAL", GenNode, None, GenClass))
    /\ [](active => Cardinality(PendingExternal) = 1)
    /\ [][(last'.op = "next" /\ last'.ret /= None) =>
            LET e == events[last'.ret]
                ext == {a \in Created("ARRIVAL") : events'[a].job_id = None}
            IN  IF /\ e.event_type = "ARRIVAL"
                   /\ e.job_id = None
                   /\ e.server = GenNode
                   /\ active
                THEN \E a \in ext :
                       /\ ext = {a}
                       /\ a \in SeqToSet(event_queue')
                       /\ events'[a] = NewEvent(a, RAdd(current_time', last'.ia),
                                                "ARRIVAL", GenNode, None, GenClass)
                ELSE ext = {}]_vars

\* the second external ARRIVAL has been dispatched while the generator was
\* active and its successor is the one pending external ARRIVAL, due at
\* current_time + the sample
C13_Witness ==
    /\ last.op = "next"
    /\ last.ret /= None
    /\ events[last.ret].event_type = "ARRIVAL"
    /\ events[last.ret].job_id = None
    /\ total_external_arrivals = 2
    /\ RLt(R(0), current_time)
    /\ \E a \in PendingExternal :
         /\ PendingExternal = {a}
         /\ a > last.ret
         /\ events[a].time = RAdd(current_time, last.ia)
         /\ last.ia \in IaSamples

\* the network has drained: no job is resident and every admitted job has exited
Drained ==
    /\ \A n \in NodeNames : nodes[n].jobs = <<>>
    /\ total_completed_jobs = total_external_arrivals

C15_RunTerminatesDrained ==
    /\ [](active <=> cnt < MaxEvents)
    /\ [](~has_next(event_queue, events) => (Drained /\ ~raised /\ cnt >= MaxEvents))
    /\ <>[](~has_next(event_queue, events) /\ Drained)

\* the loop has ended after more than max_events events: nothing is left to
\* dispatch, the nodes are empty and the three jobs admitted have all exited
C15_Witness ==
    /\ ~has_next(event_queue, events)
    /\ cnt > MaxEvents
    /\ ~active
    /\ \A n \in NodeNames : nodes[n].jobs = <<>>
    /\ total_external_arrivals >= 3
    /\ total_completed_jobs = total_external_arrivals

-----------------------------------------------------------------------------
(* Simulation.__init__ statement by statement, for a valid configuration:  *)
(* the engine (lines 60-134), then the estimators (lines 137-155), whose   *)
(* constructors are Python calls bound to the __init__ signatures of       *)
(* simulator/estimators.py along each class's method resolution order.     *)

\* the parameters (after self) of each __init__ of estimators.py, none with a
\* default, and whether it also takes *args, **kwargs
InitSig ==
    [ResponseTimeEstimator |-> [params |-> <<"sched">>, star |-> FALSE],
     PopulationEstimator |-> [params |-> <<"sched", "routing_matrix">>, star |-> FALSE],
     CompletionsEstimator |-> [params |-> <<"sched", "routing_matrix">>, star |-> FALSE],
     ObservationTimeEstimator |-> [params |-> <<"sched">>, star |-> FALSE],
     BusyTimeEstimator |-> [params |-> <<"sched", "routing_matrix">>, star |-> FALSE],
     NodeFilterMixin |-> [params |-> <<"sched", "node">>, star |-> TRUE],
     PopulationEstimatorNode |-> [params |-> <<"sched", "node">>, star |-> TRUE]]

\* the __init__ methods a constructor call runs, in order: the first one found
\* on the class's MRO, then those reached by super().__init__(sched, *args,
\* **kwargs)
InitChain ==
    [ResponseTimeEstimator |-> <<"ResponseTimeEstimator">>,
     PopulationEstimator |-> <<"PopulationEstimator">>,
     CompletionsEstimator |-> <<"CompletionsEstimator">>,
     ObservationTimeEstimator |-> <<"ObservationTimeEstimator">>,
     BusyTimeEstimator |-> <<"BusyTimeEstimator">>,
     ResponseTimeEstimatorNode |-> <<"NodeFilterMixin", "ResponseTimeEstimator">>,
     PopulationEstimatorNode |->
         <<"PopulationEstimatorNode", "NodeFilterMixin", "PopulationEstimator">>,
     CompletionsEstimatorNode |-> <<"NodeFilterMixin", "CompletionsEstimator">>,
     BusyTimeEstimatorNode |-> <<"NodeFilterMixin", "BusyTimeEstimator">>]

\* the handlers an estimator subscribes once its __init__ chain has run:
\* <<event kind, method>>, in the order of the subscribe calls
Subscriptions ==
    [ResponseTimeEstimator |-> <<<<"ARRIVAL", "_on_arr">>, <<"DEPARTURE", "_on_dep">>>>,
     PopulationEstimator |-> <<<<"ARRIVAL", "_tick_then_maybe_inc">>,
                               <<"DEPARTURE", "_tick_then_maybe_dec">>>>,
     CompletionsEstimator |-> <<<<"DEPARTURE", "_on_dep">>>>,
     ObservationTimeEstimator |-> <<<<"ARRIVAL", "_upd">>, <<"DEPARTURE", "_upd">>>>,
     BusyTimeEstimator |-> <<<<"ARRIVAL", "_on_arr">>, <<"DEPARTURE", "_on_dep">>>>,
     ResponseTimeEstimatorNode |-> <<<<"ARRIVAL", "_on_arr">>, <<"DEPARTURE", "_on_dep">>>>,
     PopulationEstimatorNode |-> <<<<"ARRIVAL", "_tick_then_maybe_inc">>,
                                   <<"DEPARTURE", "_tick_then_maybe_dec">>,
                                   <<"ARRIVAL", "_node_tick_then_inc">>,
                                   <<"DEPARTURE", "_node_tick_then_dec">>>>,
     CompletionsEstimatorNode |-> <<<<"DEPARTURE", "_on_dep">>>>,
     BusyTimeEstimatorNode |-> <<<<"ARRIVAL", "_on_arr">>, <<"DEPARTURE", "_on_dep">>>>]

\* Python's binding of a call (pos positional arguments after self, the
\* keyword arguments kw) to a signature: no positional or keyword argument in
\* excess unless the signature has *args, **kwargs, no parameter given twice,
\* no parameter left without a value; otherwise the call raises TypeError
Binds(sig, call) ==
    LET names == SeqToSet(sig.params)
        byPos == {sig.params[i] : i \in 1..(IF call.pos < Len(sig.params)
                                           THEN call.pos ELSE Len(sig.params))}
    IN  /\ call.pos > Len(sig.params) => sig.star
        /\ call.kw \ names /= {} => sig.star
        /\ call.kw \cap byPos = {}
        /\ names \subseteq (byPos \cup call.kw)

\* super().__init__(sched, *args, **kwargs): sched, then what the signature
\* left in *args and **kwargs
Forward(sig, call) ==
    [pos |-> 1 + (IF call.pos > Len(sig.params) THEN call.pos - Len(sig.params) ELSE 0),
     kw |-> call.kw \ SeqToSet(sig.params)]

RECURSIVE Constructs(_, _)
\* whether the __init__ methods of chain all bind, the first being called with
\* call
Constructs(chain, call) ==
    IF chain = <<>>
    THEN TRUE
    ELSE /\ Binds(InitSig[Head(chain)], call)
         /\ Constructs(Tail(chain), Forward(InitSig[Head(chain)], call))

\* the statements of Simulation.__init__, in order; for an estimator the
\* attribute it is assigned to, its class, the arguments of the call, and
\* whether there is one per node (make_node_estimators)
Stmts ==
    <<[name |-> "scheduler"], [name |-> "network"], [name |-> "lemer_rng"],
      [name |-> "arrival_generator"], [name |-> "subscribe"], [name |-> "counters"],
      [name |-> "rt", cls |-> "ResponseTimeEstimator", pos |-> 1, kw |-> {},
       perNode |-> FALSE],
      [name |-> "pop", cls |-> "PopulationEstimator", pos |-> 2, kw |-> {},
       perNode |-> FALSE],
      [name |-> "comp", cls |-> "CompletionsEstimator", pos |-> 2, kw |-> {},
       perNode |-> FALSE],
      [name |-> "ot", cls |-> "ObservationTimeEstimator", pos |-> 1, kw |-> {},
       perNode |-> FALSE],
      [name |-> "busy", cls |-> "BusyTimeEstimator", pos |-> 2, kw |-> {},
       perNode |-> FALSE],
      [name |-> "rt_n", cls |-> "ResponseTimeEstimatorNode", pos |-> 2, kw |-> {},
       perNode |-> TRUE],
      [name |-> "pop_n", cls |-> "PopulationEstimatorNode", pos |-> 2, kw |-> {},
       perNode |-> TRUE],
      [name |-> "comp_n", cls |-> "CompletionsEstimatorNode", pos |-> 2,
       kw |-> {"routing_matrix"}, perNode |-> TRUE],
      [name |-> "busy_n", cls |-> "BusyTimeEstimatorNode", pos |-> 2, kw |-> {},
       perNode |-> TRUE]>>

IsEstimator(st) == "cls" \in DOMAIN st

RECURSIVE SubscribeAll(_, _, _)
\* the subscribe calls of an estimator's __init__ chain
SubscribeAll(sbs, inst, todo) ==
    IF todo = <<>>
    THEN sbs
    ELSE SubscribeAll([sbs EXCEPT ![Head(todo)[1]] = Append(@, inst \o "." \o Head(todo)[2])],
                      inst, Tail(todo))

\* the orders in which the nodes of the network can be listed:
\* Network.__init__ builds its dict by iterating over a set of names
NodeOrders ==
    {o \in [1..Cardinality(NodeNames) -> NodeNames] :
       \A i, k \in 1..Cardinality(NodeNames) : o[i] = o[k] => i = k}

\* the values of cfg["max_events"]: absent, or a positive count
MaxEventsChoices == {0, MaxEvents}

\* the values Event._ids and Job._ids can have when the constructor is
\* entered: 0 in a fresh process, more after earlier runs
EarlierIds == {0, 1}

\* the state when Simulation.__init__ is entered
InitConstruct ==
    /\ \E ev \in EarlierIds, jb \in EarlierIds :
         Commit_Init([Fresh EXCEPT !.Event_ids = ev, !.Job_ids = jb, !.nodes = <<>>])
    /\ subscribers = NoHandlers
    /\ interceptors = NoHandlers
    /\ cnt = 0
    /\ sched_log = <<>>
    /\ manual = [phase |-> "run"]
    /\ rng = <<>>
    /\ twin = <<>>
    /\ est = <<>>
    /\ \E o \in NodeOrders, m \in MaxEventsChoices :
         ctor = [pc |-> 1, k |-> 1, order |-> o, max_events |-> m,
                 routing_matrix |-> Workflow]
    /\ last = [op |-> "init"]

\* the next statement of Simulation.__init__
ConstructStep ==
    /\ ~raised
    /\ ctor.pc \in 1..Len(Stmts)
    /\ LET st == Stmts[ctor.pc]
           node == ctor.order[ctor.k]
           inst == IF st.perNode THEN st.name \o "[" \o node \o "]" ELSE st.name
           ok == Constructs(InitChain[st.cls], [pos |-> st.pos, kw |-> st.kw])
           more == IsEstimator(st) /\ st.perNode /\ ctor.k < Len(ctor.order)
       IN  /\ ctor' = IF IsEstimator(st) /\ ~ok
                      THEN ctor
                      ELSE IF more
                      THEN [ctor EXCEPT !.k = @ + 1]
                      ELSE [ctor EXCEPT !.pc = @ + 1, !.k = 1]
           /\ last' = [op |-> "construct", arg |-> st.name]
           /\ CASE st.name = "network" ->
                     /\ Commit([State EXCEPT !.nodes = [n \in NodeNames |-> EmptyNode]])
                     /\ UNCHANGED subscribers
                [] st.name = "arrival_generator" ->
                     /\ Commit(schedule(State, R(0), "ARRIVAL", GenNode, None, GenClass, R(0)))
                     /\ subscribers' = [subscribers EXCEPT !["ARRIVAL"] =
                                          Append(@, "ArrivalsGenerator._on_arrival")]
                [] st.name = "subscribe" ->
                     /\ Commit(State)
                     /\ subscribers' =
                          [subscribers EXCEPT
                             !["ARRIVAL"] = Append(@, "Simulation._on_arrival"),
                             !["DEPARTURE"] = Append(@, "Simulation._on_departure")]
                [] IsEstimator(st) ->
                     IF ok
                     THEN /\ Commit(State)
                          /\ subscribers' = SubscribeAll(subscribers, inst, Subscriptions[st.cls])
                     ELSE /\ Commit([State EXCEPT !.raised = TRUE])
                          /\ UNCHANGED subscribers
                [] OTHER ->
                     /\ Commit(State)
                     /\ UNCHANGED subscribers
    /\ UNCHANGED <<interceptors, sched_log, manual, cnt, rng, twin, est>>

NextConstruct == ConstructStep

SpecConstruct == InitConstruct /\ [][NextConstruct]_vars

\* C16: for a valid configuration the construction of a Simulation raises
\* nothing, whatever the order of the nodes and the ids already handed out
\* (so that run() can be called and return the overall record and the
\* per-node map)
C16_ConstructsWithoutRaising == ~raised

-----------------------------------------------------------------------------
(* Two runs built from the same configuration and the same seed.  The      *)
(* second run is built in a process whose Event._ids and Job._ids have     *)
(* already handed out ids; the same seed gives both runs the same sequence *)
(* of draws, so each turn of the two loops is given the same samples.      *)

\* the engine of the second run after Simulation.__init__ (lines 60-134)
InitTwin ==
    /\ InitEngine
    /\ est = <<>>
    /\ \E oe \in EarlierIds, oj \in EarlierIds :
         twin = [s |-> schedule([Fresh EXCEPT !.Event_ids = oe, !.Job_ids = oj],
                                R(0), "ARRIVAL", GenNode, None, GenClass, R(0)),
                 offE |-> oe, offJ |-> oj, ret |-> None]

\* the same turn of run() in the second run, with the samples of the first
TwinStep ==
    LET r == next(twin.s, interceptors, subscribers, [ia |-> last'.ia, svc |-> last'.svc])
    IN  twin' = [twin EXCEPT
                   !.s = [r[1] EXCEPT !.active = IF SwitchOff(cnt + 1) THEN FALSE ELSE @],
                   !.ret = r[2]]

\* one turn of the loop of each run
RunBoth == RunStep /\ TwinStep /\ UNCHANGED est

NextTwin == RunBoth

SpecTwin == InitTwin /\ [][NextTwin]_vars

\* an id of the first run as the second run numbers it
ShiftId(id, off) == IF id = None THEN None ELSE id + off

\* the two events are the same but for the numbering
SameEvent(e, f) ==
    /\ f.id = e.id + twin.offE
    /\ f.time = e.time
    /\ f.event_type = e.event_type
    /\ f.server = e.server
    /\ f.job_class = e.job_class
    /\ f.cancelled = e.cancelled
    /\ f.job_id = ShiftId(e.job_id, twin.offJ)

\* the two engines are in the same state but for the numbering of events and jobs
SameRun ==
    LET t == twin.s
    IN  /\ t.current_time = current_time
        /\ t.total_external_arrivals = total_external_arrivals
        /\ t.total_completed_jobs = total_completed_jobs
        /\ t.active = active
        /\ t.raised = raised
        /\ t.event_queue = [i \in 1..Len(event_queue) |-> event_queue[i] + twin.offE]
        /\ DOMAIN t.events = {d + twin.offE : d \in DOMAIN events}
        /\ \A d \in DOMAIN events : SameEvent(events[d], t.events[d + twin.offE])
        /\ DOMAIN t.jobs = {j + twin.offJ : j \in DOMAIN jobs}
        /\ \A j \in DOMAIN jobs :
             /\ t.jobs[j + twin.offJ].job_class = jobs[j].job_class
             /\ t.jobs[j + twin.offJ].arrival_time = jobs[j].arrival_time
             /\ t.jobs[j + twin.offJ].remaining_service = jobs[j].remaining_service
        /\ \A n \in NodeNames :
             /\ t.nodes[n].last_update = nodes[n].last_update
             /\ t.nodes[n].next_departure = ShiftId(nodes[n].next_departure, twin.offE)
             /\ t.nodes[n].jobs =
                  [i \in 1..Len(nodes[n].jobs) |-> nodes[n].jobs[i] + twin.offJ]

\* the draws the handlers of an event consume: whether the generator samples
\* an inter-arrival time, and the (node, class) a service requirement is
\* sampled for, if any
DrawsOf(e, act) ==
    <<e.event_type = "ARRIVAL" /\ GenTriggers(act, e),
      IF e.event_type = "ARRIVAL"
      THEN (IF e.job_id = None THEN <<e.server, e.job_class>> ELSE EXIT)
      ELSE routing_matrix[<<e.server, e.job_class>>]>>

-----------------------------------------------------------------------------
(* MultiStreamRNG (lemer/rngs.py).  The states are Python integers; every  *)
(* intermediate value of the computations below stays under 2^31.          *)

MODULUS == 2147483647
MULTIPLIER == 48271
CHECK == 399268537
STREAMS == 256
A256 == 22925
DEFAULT == 123456789

\* a random() that steps with the jump multiplier
LehmerMultiplierJump == A256

\* the multiplier random() uses (line 81)
LehmerMultiplier == MULTIPLIER

\* a step that forgets to add the modulus
WrapNever(t) == t

\* random, lines 83-86 (plant_seeds, line 108): t if t > 0 else t + MODULUS
Wrap(t) == IF t > 0 THEN t ELSE t + MODULUS

\* random, lines 77-86 (plant_seeds, lines 96-108, with A256): one step of
\* the generator with multiplier a from state s, by Schrage's factoring
Lehmer(a, s) ==
    LET Q == MODULUS \div a
        Rm == MODULUS % a
    IN  Wrap(a * (s % Q) - Rm * (s \div Q))

\* random(stream): <<the generator afterwards, the value returned>>; the
\* value seed / MODULUS is kept as the exact quotient <<seed, MODULUS>>
random(g, stream) ==
    LET st == stream % STREAMS
        new == Lehmer(LehmerMultiplier, g.seed[st])
    IN  <<[g EXCEPT !.seed[st] = new], <<new, MODULUS>>>>

\* put_seed(x); env is what the outside gives on the two other paths: the
\* clock's int(time()) for x < 0, the number typed in (accepted when
\* 0 < val < MODULUS) for x = 0
put_seed(g, x, env) ==
    [g EXCEPT !.seed[g.stream] = IF x > 0 THEN x % MODULUS
                                 ELSE IF x < 0 THEN env % MODULUS
                                 ELSE env]

\* get_seed()
get_seed(g) == g.seed[g.stream]

RECURSIVE PlantFrom(_, _, _)
\* the turns j = lo .. hi of the for loop of plant_seeds, prev being
\* seed[lo - 1]: the values given to seed[lo], ..., seed[hi], each derived from
\* the one before (the range is halved to keep the evaluation shallow)
PlantFrom(prev, lo, hi) ==
    IF lo > hi
    THEN <<>>
    ELSE IF lo = hi
    THEN <<Lehmer(A256, prev)>>
    ELSE LET mid == (lo + hi) \div 2
             left == PlantFrom(prev, lo, mid)
         IN  left \o PlantFrom(left[Len(left)], mid + 1, hi)

\* a plant_seeds that leaves stream 0 selected
RestoreNot(current) == 0

\* plant_seeds, line 110: self.stream = current
Restore(current) == current

\* plant_seeds(x).  (Its call select_stream(0) cannot plant again:
\* initialized is already set.)
plant_seeds(g, x, env) ==
    LET g1 == [g EXCEPT !.initialized = TRUE, !.stream = 0]
        g2 == put_seed(g1, x, env)
        planted == PlantFrom(g2.seed[0], 1, STREAMS - 1)
    IN  [g2 EXCEPT !.seed = [j \in 0..(STREAMS - 1) |->
                               IF j = 0 THEN g2.seed[0] ELSE planted[j]],
                   !.stream = Restore(g.stream)]

\* a generator that plants the default seeds whenever a stream other than 0
\* is selected
NeedsPlantAlways(g) == g.stream /= 0

\* select_stream: not self.initialized and self.stream != 0
NeedsPlant(g) == ~g.initialized /\ g.stream /= 0

\* select_stream(index)
select_stream(g, index, env) ==
    LET g1 == [g EXCEPT !.stream = index % STREAMS]
    IN  IF NeedsPlant(g1)
        THEN plant_seeds(g1, DEFAULT, env)
        ELSE g1

\* MultiStreamRNG(seed_val), seed_val None standing for DEFAULT
NewRng(seed_val, env) ==
    plant_seeds([stream |-> 0, initialized |-> FALSE,
                 seed |-> [j \in 0..(STREAMS - 1) |-> DEFAULT]],
                seed_val, env)

\* no value from the outside is read
NoEnv == None

\* the engine is not involved
EngineIdle ==
    /\ Commit(State)
    /\ UNCHANGED <<subscribers, interceptors, sched_log, twin, est, ctor>>

-----------------------------------------------------------------------------
(* MultiStreamRNG.test_random, statement by statement *)

\* the number of draws of the self-test (line 150)
TestDraws == 10000

\* the seeds the generator under test was built with
BuiltWith == {DEFAULT, 1, 12345}

InitSelfTest ==
    /\ Commit_Init(Fresh)
    /\ subscribers = NoHandlers
    /\ interceptors = NoHandlers
    /\ cnt = 0
    /\ sched_log = <<>>
    /\ manual = [phase |-> "self-test", pc |-> 1, ok |-> FALSE]
    /\ \E x \in BuiltWith : rng = NewRng(x, NoEnv)
    /\ twin = <<>>
    /\ est = <<>>
    /\ ctor = [pc |-> 0, routing_matrix |-> Workflow]
    /\ last = [op |-> "init"]

\* line 148: self.select_stream(0)
TestSelect0 ==
    /\ manual.pc = 1
    /\ rng' = select_stream(rng, 0, NoEnv)
    /\ manual' = [manual EXCEPT !.pc = 2]
    /\ last' = [op |-> "select_stream"]
    /\ UNCHANGED cnt
    /\ EngineIdle

\* line 149: self.put_seed(1)
TestPutSeed ==
    /\ manual.pc = 2
    /\ rng' = put_seed(rng, 1, NoEnv)
    /\ manual' = [manual EXCEPT !.pc = 3]
    /\ last' = [op |-> "put_seed"]
    /\ UNCHANGED cnt
    /\ EngineIdle

\* lines 150-151: one turn of the loop, _ = self.random()
TestDraw ==
    /\ manual.pc = 3
    /\ cnt < TestDraws
    /\ LET r == random(rng, 0)
       IN  /\ rng' = r[1]
           /\ last' = [op |-> "random", ret |-> r[2]]
    /\ cnt' = cnt + 1
    /\ UNCHANGED manual
    /\ EngineIdle

\* line 152: ok = (self.get_seed() == self.CHECK)
TestCheck0 ==
    /\ manual.pc = 3
    /\ cnt = TestDraws
    /\ manual' = [manual EXCEPT !.pc = 4, !.ok = (get_seed(rng) = CHECK)]
    /\ last' = [op |-> "get_seed", ret |-> get_seed(rng)]
    /\ UNCHANGED <<rng, cnt>>
    /\ EngineIdle

\* line 154: self.select_stream(1)
TestSelect1 ==
    /\ manual.pc = 4
    /\ rng' = select_stream(rng, 1, NoEnv)
    /\ manual' = [manual EXCEPT !.pc = 5]
    /\ last' = [op |-> "select_stream"]
    /\ UNCHANGED cnt
    /\ EngineIdle

\* line 155: self.plant_seeds(1)
TestPlant ==
    /\ manual.pc = 5
    /\ rng' = plant_seeds(rng, 1, NoEnv)
    /\ manual' = [manual EXCEPT !.pc = 6]
    /\ last' = [op |-> "plant_seeds"]
    /\ UNCHANGED cnt
    /\ EngineIdle

\* line 156: ok = ok and (self.get_seed() == self.A256)
TestCheck1 ==
    /\ manual.pc = 6
    /\ manual' = [manual EXCEPT !.pc = 7, !.ok = (@ /\ get_seed(rng) = A256)]
    /\ last' = [op |-> "get_seed", ret |-> get_seed(rng)]
    /\ UNCHANGED <<rng, cnt>>
    /\ EngineIdle

NextSelfTest ==
    \/ TestSelect0
    \/ TestPutSeed
    \/ TestDraw
    \/ TestCheck0
    \/ TestSelect1
    \/ TestPlant
    \/ TestCheck1

SpecSelfTest == InitSelfTest /\ [][NextSelfTest]_vars

\* C18: in the self-test, stream 0 set to 1 and drawn from 10000 times has
\* the state 399268537, and after plant_seeds(1) stream 1 has the state
\* 22925; both comparisons of the test succeed
C18_SelfTestHolds ==
    /\ (manual.pc >= 4 /\ manual.pc <= 5) => (rng.seed[0] = CHECK /\ manual.ok)
    /\ manual.pc >= 6 => (rng.seed[1] = A256 /\ rng.stream = 1)
    /\ manual.pc = 7 => manual.ok

\* the self-test has run through: 10000 draws were made, stream 1 is
\* selected and ok is true
C18_Witness ==
    /\ manual.pc = 7
    /\ cnt = TestDraws
    /\ manual.ok
    /\ rng.stream = 1
    /\ rng.seed[0] = 1
    /\ rng.seed[1] = A256

-----------------------------------------------------------------------------
(* A client of MultiStreamRNG: it builds a generator from a seed in        *)
(* [1, m-1] and calls random, select_stream, put_seed and plant_seeds.     *)

\* the client makes at most this many calls
MaxRngCalls == 3

\* seeds in [1, m-1]: the ends of the range and the quotient m div a, from
\* which Schrage's difference is negative
RngSeeds == {1, MODULUS \div MULTIPLIER, MODULUS - 1}

\* stream arguments, one of them beyond the 256 streams
RngStreams == {0, STREAMS - 1, STREAMS + 1}

InitRng ==
    /\ Commit_Init(Fresh)
    /\ subscribers = NoHandlers
    /\ interceptors = NoHandlers
    /\ cnt = 0
    /\ sched_log = <<>>
    /\ manual = [phase |-> "run"]
    /\ \E x \in RngSeeds : rng = NewRng(x, NoEnv)
    /\ twin = <<>>
    /\ est = <<>>
    /\ ctor = [pc |-> 0, routing_matrix |-> Workflow]
    /\ last = [op |-> "init"]

RngFrame ==
    /\ cnt < MaxRngCalls
    /\ cnt' = cnt + 1
    /\ UNCHANGED manual
    /\ EngineIdle

\* rng.random(stream)
RandomCall(stream) ==
    /\ LET r == random(rng, stream)
       IN  /\ rng' = r[1]
           /\ last' = [op |-> "random", arg |-> stream, ret |-> r[2],
                       before |-> rng.seed[stream % STREAMS]]
    /\ RngFrame

\* the value the parameter stream of random takes when no argument is given
DefaultStream == 0

\* rng.random(), as simulation.py and arrivals.py call it
RandomNoArgument ==
    /\ LET r == random(rng, DefaultStream)
       IN  /\ rng' = r[1]
           /\ last' = [op |-> "random", arg |-> DefaultStream, ret |-> r[2],
                       before |-> rng.seed[DefaultStream], given |-> 0]
    /\ RngFrame

\* rng.select_stream(index)
SelectStreamCall(index) ==
    /\ rng' = select_stream(rng, index, NoEnv)
    /\ last' = [op |-> "select_stream", arg |-> index]
    /\ RngFrame

\* rng.put_seed(x), x > 0
PutSeedCall(x) ==
    /\ rng' = put_seed(rng, x, NoEnv)
    /\ last' = [op |-> "put_seed", arg |-> x]
    /\ RngFrame

\* rng.plant_seeds(x), x > 0
PlantSeedsCall(x) ==
    /\ rng' = plant_seeds(rng, x, NoEnv)
    /\ last' = [op |-> "plant_seeds", arg |-> x]
    /\ RngFrame

NextRng ==
    \/ \E stream \in RngStreams : RandomCall(stream)
    \/ RandomNoArgument
    \/ \E index \in RngStreams : SelectStreamCall(index)
    \/ \E x \in RngSeeds : PutSeedCall(x)
    \/ \E x \in RngSeeds : PlantSeedsCall(x)

SpecRng == InitRng /\ [][NextRng]_vars

\* x + y modulo m for x, y in [0, m-1], without leaving the 31 bits
AddMod(x, y) == IF x >= MODULUS - y THEN x - (MODULUS - y) ELSE x + y

RECURSIVE MulMod(_, _)
\* (a * s) mod m by doubling, for s in [0, m-1]
MulMod(a, s) ==
    IF a = 0
    THEN 0
    ELSE LET h == MulMod(a \div 2, s)
             d == AddMod(h, h)
         IN  IF a % 2 = 1 THEN AddMod(d, s) ELSE d

\* C19: random(stream) replaces the state s of stream (stream mod 256) by
\* (48271 * s) mod (2^31 - 1), which is what Schrage's computation gives; the
\* states stay in [1, m-1]; the value returned is the new state over m,
\* strictly between 0 and 1; no other stream and not the selected index change
C19_RandomIsLehmerStep ==
    /\ [](\A j \in 0..(STREAMS - 1) : rng.seed[j] >= 1 /\ rng.seed[j] <= MODULUS - 1)
    /\ [][last'.op = "random" =>
            LET st == last'.arg % STREAMS
            IN  /\ rng'.seed[st] = MulMod(MULTIPLIER, rng.seed[st])
                /\ last'.ret = <<rng'.seed[st], MODULUS>>
                /\ RLt(R(0), last'.ret)
                /\ RLt(last'.ret, R(1))
                /\ \A j \in 0..(STREAMS - 1) \ {st} : rng'.seed[j] = rng.seed[j]
                /\ rng'.stream = rng.stream
                /\ rng'.initialized = rng.initialized]_vars

\* a draw with a stream argument beyond 255 has stepped stream 1 from the
\* state m - 1, where Schrage's difference is negative, to m - 48271
C19_Witness ==
    /\ last.op = "random"
    /\ last.arg = STREAMS + 1
    /\ last.before = MODULUS - 1
    /\ rng.seed[1] = MODULUS - MULTIPLIER
    /\ last.ret = <<MODULUS - MULTIPLIER, MODULUS>>

\* C20: plant_seeds(x), x in [1, m-1], sets stream 0 to x and each stream j
\* in 1..255 to (22925 * state of stream j-1) mod m, and leaves the selected
\* stream index as it was
C20_PlantSeeds ==
    [][last'.op = "plant_seeds" =>
         /\ rng'.seed[0] = last'.arg
         /\ \A j \in 1..(STREAMS - 1) : rng'.seed[j] = MulMod(A256, rng'.seed[j - 1])
         /\ rng'.stream = rng.stream]_vars

\* with the last stream selected, the seeds were planted anew
\* from m - 1: stream 0 holds m - 1, stream 1 holds m - 22925, and the last
\* stream is still selected
C20_Witness ==
    /\ last.op = "plant_seeds"
    /\ last.arg = MODULUS - 1
    /\ rng.stream = STREAMS - 1
    /\ rng.seed[0] = MODULUS - 1
    /\ rng.seed[1] = MODULUS - A256
    /\ cnt = MaxRngCalls

\* C21: select_stream(i) sets the selected stream index to i mod 256 and
\* changes nothing else: a constructed generator is initialized, so no call
\* to select_stream alters the state of any of the 256 streams
C21_SelectStreamFrame ==
    /\ [](rng.initialized)
    /\ [][last'.op = "select_stream" =>
            /\ rng'.stream = last'.arg % STREAMS
            /\ rng'.seed = rng.seed
            /\ rng'.initialized = rng.initialized]_vars

\* stream 1 was selected with an index beyond 255 while stream 0 held a seed
\* put there after construction
C21_Witness ==
    /\ last.op = "select_stream"
    /\ last.arg = STREAMS + 1
    /\ rng.stream = 1
    /\ rng.seed[0] /= rng.seed[1]
    /\ rng.seed[1] /= Lehmer(A256, rng.seed[0])

-----------------------------------------------------------------------------
(* Seeding with any integer: MultiStreamRNG(seed_val), put_seed(x) and     *)
(* plant_seeds(x) with x inside and outside [1, m-1].                      *)

\* seed arguments: negative, zero, in range, and m itself
SeedArgs == {-1, 0, 1, MODULUS}

\* int(time()) as read by put_seed when x < 0
ClockValues == {DEFAULT, MODULUS}

\* the number typed in that put_seed accepts when x = 0 (0 < val < m)
InputValues == {1, MODULUS - 1}

\* what put_seed(x) reads from the outside
Envs(x) == IF x < 0 THEN ClockValues ELSE IF x = 0 THEN InputValues ELSE {NoEnv}

\* streams drawn from after seeding
SeedStreams == {0, 1}

InitSeed ==
    /\ Commit_Init(Fresh)
    /\ subscribers = NoHandlers
    /\ interceptors = NoHandlers
    /\ cnt = 0
    /\ sched_log = <<>>
    /\ manual = [phase |-> "run"]
    /\ twin = <<>>
    /\ est = <<>>
    /\ ctor = [pc |-> 0, routing_matrix |-> Workflow]
    /\ \E x \in SeedArgs : \E env \in Envs(x) :
          /\ rng = NewRng(x, env)
          /\ last = [op |-> "init", arg |-> x, env |-> env]

\* rng.put_seed(x), any x
PutSeedWith(x, env) ==
    /\ rng' = put_seed(rng, x, env)
    /\ last' = [op |-> "put_seed", arg |-> x, env |-> env]
    /\ RngFrame

\* rng.plant_seeds(x), any x
PlantSeedsWith(x, env) ==
    /\ rng' = plant_seeds(rng, x, env)
    /\ last' = [op |-> "plant_seeds", arg |-> x, env |-> env]
    /\ RngFrame

NextSeed ==
    \/ \E stream \in SeedStreams : RandomCall(stream)
    \/ \E x \in SeedArgs : \E env \in Envs(x) : PutSeedWith(x, env)
    \/ \E x \in SeedArgs : \E env \in Envs(x) : PlantSeedsWith(x, env)

SpecSeed == InitSeed /\ [][NextSeed]_vars

\* the seed argument lies in [1, m-1]
SeedInRange(x) == x >= 1 /\ x <= MODULUS - 1

\* C22: a seed that is zero, negative or outside [1, m-1] is rejected with an
\* error at construction, put_seed or plant_seeds, and no stream state is
\* derived from it
C22_RejectsOutOfRange ==
    (last.op \in {"init", "put_seed", "plant_seeds"} /\ ~SeedInRange(last.arg))
        => raised

-----------------------------------------------------------------------------
(* A simulation built from a cfg whose routing table lacks one entry of    *)
(* the workflow.  Network.__init__ stores the table without reading it,    *)
(* and lines 60-134 of Simulation.__init__ wire the engine as before.      *)

\* the table f without its entry for key
Lacking(f, key) == [k \in (DOMAIN f) \ {key} |-> f[k]]

\* the (node, class) pairs a job admitted at the generator's target can come to
RECURSIVE ReachableFrom(_, _)
ReachableFrom(key, fuel) ==
    IF fuel = 0 \/ key \notin DOMAIN Workflow \/ Workflow[key] = EXIT
    THEN {key}
    ELSE {key} \cup ReachableFrom(Workflow[key], fuel - 1)

Reachable == ReachableFrom(<<GenNode, GenClass>>, Cardinality(DOMAIN Workflow))

InitRouting ==
    /\ Commit_Init(schedule(Fresh, R(0), "ARRIVAL", GenNode, None, GenClass, R(0)))
    /\ subscribers =
         [k \in Kinds |->
            IF k = "ARRIVAL"
            THEN <<"ArrivalsGenerator._on_arrival", "Simulation._on_arrival">>
            ELSE <<"Simulation._on_departure">>]
    /\ interceptors = NoHandlers
    /\ cnt = 0
    /\ sched_log = <<>>
    /\ manual = [phase |-> "run"]
    /\ rng = <<>>
    /\ twin = <<>>
    /\ est = <<>>
    /\ \E key \in Reachable :
         ctor = [pc |-> 0, routing_matrix |-> Lacking(Workflow, key)]
    /\ last = [op |-> "init"]

SpecRouting == InitRouting /\ [][Next]_vars

\* the routing table lacks the entry of a reachable (node, class) pair
Incomplete == \E key \in Reachable : key \notin DOMAIN routing_matrix

\* C23: with a routing table that lacks the entry of a reachable (node,
\* class) pair, construction fails before any event is dispatched: the event
\* loop never dispatches an event, and the missing entry never raises inside it
C23_IncompleteRoutingFailsFast ==
    Incomplete => (last.op /= "next" /\ ~raised)

-----------------------------------------------------------------------------
(* WelfordEstimator (simulator/estimators.py), in exact arithmetic.        *)

\* the estimator under test is given at most this many samples
MaxSamples == 5

\* the samples fed
Samples == {R(1), R(2), R(3), R(4), R(5)}

RMul(x, y) == Norm(x[1] * y[1], x[2] * y[2])

\* float('inf') and float('-inf'): RLt orders them above and below every number
PosInf == <<1, 0>>
NegInf == <<0 - 1, 0>>

\* WelfordEstimator()
NewWelford == [n |-> 0, mean |-> R(0), M2 |-> R(0), min |-> PosInf, max |-> NegInf]

\* an update of M2 with the deviation from the old mean twice
DeviationFromOld(x, mean, delta) == delta

\* add, line 13: the second factor x - self.mean, self.mean being the new mean
Deviation(x, mean, delta) == RSub(x, mean)

\* WelfordEstimator.add(x)
WelfordAdd(w, x) ==
    LET n == w.n + 1
        delta == RSub(x, w.mean)
        mean == RAdd(w.mean, RDivInt(delta, n))
    IN  [n |-> n,
         mean |-> mean,
         M2 |-> RAdd(w.M2, RMul(delta, Deviation(x, mean, delta))),
         min |-> IF RLt(x, w.min) THEN x ELSE w.min,
         max |-> IF RLt(w.max, x) THEN x ELSE w.max]

\* WelfordEstimator.get_mean()
WelfordMean(w) == IF w.n /= 0 THEN w.mean ELSE R(0)

\* the square root math.sqrt returns, kept as the number it is the root of
Sqrt(q) == [root_of |-> q]
Squared(r) == r.root_of

\* WelfordEstimator.get_stddev()
get_stddev(w) == IF w.n > 1 THEN Sqrt(RDivInt(w.M2, w.n - 1)) ELSE Sqrt(R(0))

InitWelford ==
    /\ Commit_Init(Fresh)
    /\ subscribers = NoHandlers
    /\ interceptors = NoHandlers
    /\ cnt = 0
    /\ sched_log = <<>>
    /\ manual = [phase |-> "run"]
    /\ rng = <<>>
    /\ twin = <<>>
    /\ est = [w |-> NewWelford, xs |-> <<>>]
    /\ ctor = [pc |-> 0, routing_matrix |-> Workflow]
    /\ last = [op |-> "init"]

\* w.add(x)
AddSample(x) ==
    /\ Len(est.xs) < MaxSamples
    /\ est' = [w |-> WelfordAdd(est.w, x), xs |-> Append(est.xs, x)]
    /\ last' = [op |-> "add", arg |-> x]
    /\ Commit(State)
    /\ UNCHANGED <<subscribers, interceptors, sched_log, cnt, manual, rng, twin, ctor>>

NextWelford == \E x \in Samples : AddSample(x)

SpecWelford == InitWelford /\ [][NextWelford]_vars

RECURSIVE SumOf(_)
\* x1 + ... + xn
SumOf(xs) == IF xs = <<>> THEN R(0) ELSE RAdd(xs[1], SumOf(Tail(xs)))

RECURSIVE SumSqDev(_, _)
\* (x1 - m)^2 + ... + (xn - m)^2
SumSqDev(xs, m) ==
    IF xs = <<>>
    THEN R(0)
    ELSE RAdd(RMul(RSub(xs[1], m), RSub(xs[1], m)), SumSqDev(Tail(xs), m))

\* C24: after add(x1), ..., add(xn) on a fresh WelfordEstimator, n counts the
\* samples, mean is their arithmetic mean, M2 the sum of their squared
\* deviations from it, min and max their extremes; the square of get_stddev()
\* is M2/(n-1) for n > 1 and 0 otherwise, get_mean() is 0 for n = 0, and
\* 1,2,3,4,5 give mean 3 and variance 5/2
C24_WelfordStatistics ==
    LET xs == est.xs
        w == est.w
        n == Len(xs)
        m == RDivInt(SumOf(xs), n)
    IN  /\ w.n = n
        /\ n = 0 => WelfordMean(w) = R(0) /\ w.M2 = R(0)
        /\ n > 0 => /\ WelfordMean(w) = m
                    /\ w.M2 = SumSqDev(xs, m)
                    /\ \E i \in 1..n : w.min = xs[i]
                    /\ \E i \in 1..n : w.max = xs[i]
                    /\ \A i \in 1..n : RLe(w.min, xs[i]) /\ RLe(xs[i], w.max)
        /\ n > 1 => Squared(get_stddev(w)) = RDivInt(SumSqDev(xs, m), n - 1)
        /\ n <= 1 => Squared(get_stddev(w)) = R(0)
        /\ xs = <<R(1), R(2), R(3), R(4), R(5)>> =>
              WelfordMean(w) = R(3) /\ Squared(get_stddev(w)) = <<5, 2>>

\* the samples 1,2,3,4,5 have been added
C24_Witness ==
    /\ est.xs = <<R(1), R(2), R(3), R(4), R(5)>>
    /\ est.w.n = 5
    /\ est.w.mean = R(3)
    /\ est.w.M2 = R(10)
    /\ last.op = "add"

-----------------------------------------------------------------------------
(* The estimators on a running simulation.  The engine is wired as by      *)
(* lines 60-134 of Simulation.__init__, then the estimators that lines     *)
(* 137-150 construct subscribe their handlers, in that order: rt, pop,     *)
(* comp, ot, busy and one ResponseTimeEstimatorNode per node.  An          *)
(* estimator's handler reads the event and the scheduler's current_time    *)
(* and writes its own fields only, so the handlers are applied along the   *)
(* call log of next().  A WelfordEstimator is kept as the samples added.   *)

\* the estimators, in the order they are constructed; the per-node ones are
\* independent of one another, so one order of the nodes stands for all
Estimators ==
    <<[inst |-> "rt", cls |-> "ResponseTimeEstimator", node |-> ""],
      [inst |-> "pop", cls |-> "PopulationEstimator", node |-> ""],
      [inst |-> "comp", cls |-> "CompletionsEstimator", node |-> ""],
      [inst |-> "ot", cls |-> "ObservationTimeEstimator", node |-> ""],
      [inst |-> "busy", cls |-> "BusyTimeEstimator", node |-> ""],
      [inst |-> "rt_n[A]", cls |-> "ResponseTimeEstimatorNode", node |-> "A"],
      [inst |-> "rt_n[B]", cls |-> "ResponseTimeEstimatorNode", node |-> "B"],
      [inst |-> "rt_n[P]", cls |-> "ResponseTimeEstimatorNode", node |-> "P"]>>

\* the per-node population and busy-time estimators, each constructed
\* directly with arguments its __init__ chain binds:
\* PopulationEstimatorNode(sched, n, n, routing_matrix) and
\* BusyTimeEstimatorNode(sched, n, routing_matrix)
DirectEstimators ==
    <<[inst |-> "pop_n[A]", cls |-> "PopulationEstimatorNode", node |-> "A"],
      [inst |-> "pop_n[B]", cls |-> "PopulationEstimatorNode", node |-> "B"],
      [inst |-> "pop_n[P]", cls |-> "PopulationEstimatorNode", node |-> "P"],
      [inst |-> "busy_n[A]", cls |-> "BusyTimeEstimatorNode", node |-> "A"],
      [inst |-> "busy_n[B]", cls |-> "BusyTimeEstimatorNode", node |-> "B"],
      [inst |-> "busy_n[P]", cls |-> "BusyTimeEstimatorNode", node |-> "P"]>>

EstimatorNames ==
    {Estimators[i].inst : i \in 1..Len(Estimators)}
    \cup {DirectEstimators[i].inst : i \in 1..Len(DirectEstimators)}

EstimatorNamed(inst) ==
    CHOOSE x \in SeqToSet(Estimators) \cup SeqToSet(DirectEstimators) : x.inst = inst


\* the fields an estimator's __init__ sets, the scheduler's clock being now;
\* hist keeps, for the population estimator, the time and the population
\* after each call of one of its handlers
NewEstimator(x, now) ==
    CASE x.cls \in {"ResponseTimeEstimator", "ResponseTimeEstimatorNode"} ->
           [cls |-> x.cls, node |-> x.node, arr |-> <<>>, w |-> <<>>]
      [] x.cls = "PopulationEstimator" ->
           [cls |-> x.cls, pop |-> 0, start_time |-> now, last_time |-> now,
            area |-> R(0), min |-> 0, max |-> 0, hist |-> <<<<now, 0>>>>]
      [] x.cls = "CompletionsEstimator" -> [cls |-> x.cls, count |-> 0]
      [] x.cls = "ObservationTimeEstimator" -> [cls |-> x.cls, start |-> now, end |-> now]
      [] x.cls = "BusyTimeEstimator" ->
           [cls |-> x.cls, pop |-> 0, busy |-> FALSE, last |-> now, total |-> R(0)]
      [] x.cls = "PopulationEstimatorNode" ->
           [cls |-> x.cls, node |-> x.node, pop |-> 0, start_time |-> now,
            last_time |-> now, area |-> R(0), min |-> 0, max |-> 0,
            hist |-> <<<<now, 0>>>>]
      [] x.cls = "BusyTimeEstimatorNode" ->
           [cls |-> x.cls, node |-> x.node, pop |-> 0, busy |-> FALSE, last |-> now,
            total |-> R(0)]

\* the estimators xs as constructed at time now, by name
Built(xs, now) ==
    [x \in {xs[i].inst : i \in 1..Len(xs)} |-> NewEstimator(EstimatorNamed(x), now)]

RECURSIVE Attach(_, _)
\* the subscribe calls of the estimators' constructors
Attach(sbs, todo) ==
    IF todo = <<>>
    THEN sbs
    ELSE Attach(SubscribeAll(sbs, Head(todo).inst, Subscriptions[Head(todo).cls]),
                Tail(todo))

\* ResponseTimeEstimator._on_arr, and its override in ResponseTimeEstimatorNode
RtOnArr(r, e) ==
    IF (r.cls = "ResponseTimeEstimatorNode" => e.server = r.node) /\ e.job_id /= None
    THEN [r EXCEPT !.arr = (e.job_id :> e.time) @@ @]
    ELSE r

\* ResponseTimeEstimator._on_dep, and its override in ResponseTimeEstimatorNode
RtOnDep(r, e) ==
    IF (r.cls = "ResponseTimeEstimatorNode" => e.server = r.node)
       /\ e.job_id \in DOMAIN r.arr
    THEN [r EXCEPT !.arr = [j \in (DOMAIN r.arr) \ {e.job_id} |-> r.arr[j]],
                   !.w = Append(@, RSub(e.time, r.arr[e.job_id]))]
    ELSE r

\* a tick that weights the elapsed time with the population after the change
WeightAfter(before, after) == after

\* _tick_then_maybe_inc / _tick_then_maybe_dec: _tick runs first, with the
\* population as it is before the change
Weight(before, after) == before

\* PopulationEstimator._tick with self.pop = pop
Tick(p, now, pop) ==
    LET dt == RSub(now, p.last_time)
    IN  IF RLt(R(0), dt)
        THEN [p EXCEPT !.area = RAdd(@, RMulInt(dt, pop)), !.last_time = now]
        ELSE p

\* a test that takes every DEPARTURE for a completion
RoutesToExitAlways(e) == TRUE

\* routing_matrix.get((e.server, e.job_class)) == "EXIT"
RoutesToExit(e) ==
    <<e.server, e.job_class>> \in DOMAIN routing_matrix
    /\ routing_matrix[<<e.server, e.job_class>>] = EXIT

\* PopulationEstimator._tick_then_maybe_inc
PopInc(p, e, now) ==
    LET pop == IF e.job_id = None THEN p.pop + 1 ELSE p.pop
        q == Tick(p, now, Weight(p.pop, pop))
    IN  [q EXCEPT !.pop = pop,
                  !.max = IF pop > q.max THEN pop ELSE q.max,
                  !.hist = Append(@, <<now, pop>>)]

\* PopulationEstimator._tick_then_maybe_dec
PopDec(p, e, now) ==
    LET pop == IF RoutesToExit(e) THEN p.pop - 1 ELSE p.pop
        q == Tick(p, now, Weight(p.pop, pop))
    IN  [q EXCEPT !.pop = pop,
                  !.min = IF pop < q.min THEN pop ELSE q.min,
                  !.hist = Append(@, <<now, pop>>)]

\* CompletionsEstimator._on_dep
CompOnDep(c, e) == IF RoutesToExit(e) THEN [c EXCEPT !.count = @ + 1] ELSE c

\* ObservationTimeEstimator._upd
OtUpd(o, now) == [o EXCEPT !.end = now]

\* BusyTimeEstimator._on_arr
BusyOnArr(b, e, now) ==
    IF e.job_id = None
    THEN [b EXCEPT !.busy = IF b.pop = 0 THEN TRUE ELSE @,
                   !.last = IF b.pop = 0 THEN now ELSE @,
                   !.pop = @ + 1]
    ELSE b

\* BusyTimeEstimator._on_dep
BusyOnDep(b, e, now) ==
    IF RoutesToExit(e)
    THEN LET closes == b.pop - 1 = 0 /\ b.busy
         IN  [b EXCEPT !.pop = @ - 1,
                       !.total = IF closes THEN RAdd(@, RSub(now, b.last)) ELSE @,
                       !.busy = IF closes THEN FALSE ELSE @]
    ELSE b

\* PopulationEstimatorNode._node_tick_then_inc
NodePopInc(p, e, now) ==
    LET q == Tick(p, now, p.pop)
        pop == IF e.server = p.node THEN p.pop + 1 ELSE p.pop
    IN  [q EXCEPT !.pop = pop,
                  !.max = IF pop > q.max THEN pop ELSE q.max,
                  !.hist = Append(@, <<now, pop>>)]

\* PopulationEstimatorNode._node_tick_then_dec
NodePopDec(p, e, now) ==
    LET q == Tick(p, now, p.pop)
        pop == IF e.server = p.node THEN p.pop - 1 ELSE p.pop
    IN  [q EXCEPT !.pop = pop,
                  !.min = IF pop < q.min THEN pop ELSE q.min,
                  !.hist = Append(@, <<now, pop>>)]

\* BusyTimeEstimatorNode._on_arr
NodeBusyOnArr(b, e, now) == IF e.server = b.node THEN BusyOnArr(b, e, now) ELSE b

\* BusyTimeEstimatorNode._on_dep
NodeBusyOnDep(b, e, now) == IF e.server = b.node THEN BusyOnDep(b, e, now) ELSE b

\* the call handler(ev, self) of an estimator's bound method
EstInvoke(r, method, e, now) ==
    CASE r.cls \in {"ResponseTimeEstimator", "ResponseTimeEstimatorNode"} ->
           (IF method = "_on_arr" THEN RtOnArr(r, e) ELSE RtOnDep(r, e))
      [] r.cls = "PopulationEstimator" ->
           (IF method = "_tick_then_maybe_inc" THEN PopInc(r, e, now) ELSE PopDec(r, e, now))
      [] r.cls = "CompletionsEstimator" -> CompOnDep(r, e)
      [] r.cls = "ObservationTimeEstimator" -> OtUpd(r, now)
      [] r.cls = "BusyTimeEstimator" ->
           (IF method = "_on_arr" THEN BusyOnArr(r, e, now) ELSE BusyOnDep(r, e, now))
      [] r.cls = "PopulationEstimatorNode" ->
           (CASE method = "_tick_then_maybe_inc" -> PopInc(r, e, now)
              [] method = "_tick_then_maybe_dec" -> PopDec(r, e, now)
              [] method = "_node_tick_then_inc" -> NodePopInc(r, e, now)
              [] method = "_node_tick_then_dec" -> NodePopDec(r, e, now))
      [] r.cls = "BusyTimeEstimatorNode" ->
           (IF method = "_on_arr" THEN NodeBusyOnArr(r, e, now) ELSE NodeBusyOnDep(r, e, now))

\* the estimator and the method a handler name of the call log stands for
BoundMethod(h) ==
    {<<x, m>> \in EstimatorNames \X {"_on_arr", "_on_dep", "_tick_then_maybe_inc",
                                     "_tick_then_maybe_dec", "_upd",
                                     "_node_tick_then_inc", "_node_tick_then_dec"} :
        h = x \o "." \o m}

RECURSIVE ApplyCalls(_, _, _)
\* the estimators after the handler calls cs of one next(), in call order
ApplyCalls(es, cs, evs) ==
    IF cs = <<>>
    THEN es
    ELSE LET c == Head(cs)
             bm == BoundMethod(c[1])
         IN  IF bm = {}
             THEN ApplyCalls(es, Tail(cs), evs)
             ELSE LET b == CHOOSE y \in bm : TRUE
                  IN  ApplyCalls([es EXCEPT ![b[1]] = EstInvoke(@, b[2], evs[c[2]], c[3])],
                                 Tail(cs), evs)

InitEst ==
    /\ Commit_Init(schedule(Fresh, R(0), "ARRIVAL", GenNode, None, GenClass, R(0)))
    /\ subscribers =
         Attach([k \in Kinds |->
                   IF k = "ARRIVAL"
                   THEN <<"ArrivalsGenerator._on_arrival", "Simulation._on_arrival">>
                   ELSE <<"Simulation._on_departure">>],
                Estimators)
    /\ interceptors = NoHandlers
    /\ cnt = 0
    /\ sched_log = <<>>
    /\ manual = [phase |-> "run"]
    /\ rng = <<>>
    /\ twin = <<>>
    /\ est = Built(Estimators, R(0))
    /\ ctor = [pc |-> 0, routing_matrix |-> Workflow]
    /\ last = [op |-> "init"]

\* the estimators' handlers of the turn's next()
EstStep == est' = ApplyCalls(est, calls', events')

\* one turn of the while loop of run() with the estimators attached
RunEst == RunStep /\ EstStep /\ UNCHANGED twin

\* the methods each estimator class defines or inherits (estimators.py)
Methods ==
    [ResponseTimeEstimator |-> {"__init__", "_on_arr", "_on_dep"},
     PopulationEstimator |-> {"__init__", "_tick", "_tick_then_maybe_inc",
                              "_tick_then_maybe_dec", "get_mean"},
     CompletionsEstimator |-> {"__init__", "_on_dep"},
     ObservationTimeEstimator |-> {"__init__", "_upd", "elapsed"},
     BusyTimeEstimator |-> {"__init__", "_on_arr", "_on_dep"},
     ResponseTimeEstimatorNode |-> {"__init__", "_on_arr", "_on_dep"}]

\* run(), line 173, once the while loop has ended:
\* self.busy.finalize(self.scheduler.current_time); the call of a method the
\* class does not have raises AttributeError
RunEnd ==
    /\ ~raised
    /\ ~has_next(event_queue, events)
    /\ manual.phase = "run"
    /\ manual' = [phase |-> "finalize"]
    /\ Commit([State EXCEPT !.raised = "finalize" \notin Methods[est["busy"].cls]])
    /\ last' = [op |-> "finalize", arg |-> "busy"]
    /\ UNCHANGED <<subscribers, interceptors, sched_log, cnt, rng, twin, est, ctor>>

NextEst ==
    \/ RunEst
    \/ RunEnd

SpecEst == InitEst /\ [][NextEst]_vars

\* the event the latest next() dispatched
Dispatched(kind) ==
    /\ last'.op = "next"
    /\ last'.ret /= None
    /\ events[last'.ret].event_type = kind

\* C25: on every handled DEPARTURE the response-time estimator, system-wide
\* and of the event's node, records exactly one sample, equal to current_time
\* minus the arrival_time of the departing job, on first visits too
C25_ResponseSamplePerDeparture ==
    [][(Dispatched("DEPARTURE") /\ ~raised') =>
         LET e == events[last'.ret]
             x == RSub(current_time', jobs[e.job_id].arrival_time)
             own == "rt_n[" \o e.server \o "]"
         IN  /\ est'["rt"].w = Append(est["rt"].w, x)
             /\ est'[own].w = Append(est[own].w, x)]_vars

RECURSIVE Integral(_)
\* the time integral of the step function that hist describes, from its first
\* time to its last
Integral(hist) ==
    IF Len(hist) < 2
    THEN R(0)
    ELSE RAdd(RMulInt(RSub(hist[2][1], hist[1][1]), hist[1][2]), Integral(Tail(hist)))

\* C26: on every dispatched ARRIVAL and DEPARTURE the population estimator
\* adds pop * (current_time - last_time) to area with the population from
\* before the event, advances last_time to current_time, and only then
\* changes pop; area is the time integral of the population counter from
\* start_time to last_time
C26_TickBeforeChange ==
    /\ [][(last'.op = "next" /\ last'.ret /= None /\ ~raised') =>
            LET p == est["pop"]
                q == est'["pop"]
            IN  /\ q.area = RAdd(p.area, RMulInt(RSub(current_time', p.last_time), p.pop))
                /\ q.last_time = current_time']_vars
    /\ [](LET p == est["pop"]
          IN  /\ p.area = Integral(p.hist)
              /\ p.hist[1][1] = p.start_time
              /\ p.hist[Len(p.hist)] = <<p.last_time, p.pop>>)

\* a DEPARTURE that routes to EXIT has been dispatched while two jobs were in
\* the system: the area has grown and the population has gone from 2 to 1
C26_Witness ==
    /\ last.op = "next"
    /\ last.ret /= None
    /\ events[last.ret].event_type = "DEPARTURE"
    /\ RoutesToExit(events[last.ret])
    /\ est["pop"].pop = 1
    /\ est["pop"].max = 2
    /\ RLt(R(0), est["pop"].area)
    /\ est["pop"].last_time = current_time

\* C27: at the end of run(), after the event loop, every busy-time estimator
\* is finalized once, which closes a busy interval still open, before the
\* metrics are collected
C27_BusyFinalizedAtRunEnd ==
    manual.phase = "finalize" => (~raised /\ ~est["busy"].busy)

-----------------------------------------------------------------------------
(* cancel on the scheduler of the test harness *)

\* everything of the scheduler and the simulation but the events' fields
CancelFrame ==
    <<event_queue, Event_ids, current_time, job_table, subscribers, interceptors,
      jobs, Job_ids, nodes, total_external_arrivals, total_completed_jobs, active>>

\* C28, as claimed: cancel(event) sets event.cancelled for whatever event it
\* is given, queued or not, and changes nothing else
C28_Original ==
    [][last'.op = "cancel" =>
         /\ events'[last'.arg].cancelled
         /\ UNCHANGED CancelFrame]_vars

\* C28, amended: cancel(event) sets event.cancelled if the event is in the
\* queue and leaves an event that is not in the queue (already popped) as it
\* is; nothing else changes: the queue keeps its entries in their order, the
\* other events and the other fields of the event, current_time and job_table
\* are untouched
C28_CancelSetsFlagOfQueued ==
    [][last'.op = "cancel" =>
         LET id == last'.arg
             queued == \E i \in 1..Len(event_queue) : event_queue[i] = id
         IN  /\ events'[id].cancelled = (events[id].cancelled \/ queued)
             /\ events'[id] = [events[id] EXCEPT !.cancelled = events'[id].cancelled]
             /\ \A x \in (DOMAIN events) \ {id} : events'[x] = events[x]
             /\ DOMAIN events' = DOMAIN events
             /\ UNCHANGED CancelFrame]_vars

\* an event that was already popped and dispatched has been given to cancel
\* and keeps its flag unset, while a cancelled event is still in the queue
C28_Witness ==
    /\ last.op = "cancel"
    /\ ~events[last.arg].cancelled
    /\ \A i \in 1..Len(event_queue) : event_queue[i] /= last.arg
    /\ \E i \in 1..Len(event_queue) : events[event_queue[i]].cancelled

-----------------------------------------------------------------------------
(* The pending departures of the nodes during a run *)

\* the non-cancelled DEPARTURE events of node n in the queue
LiveDepartures(n) ==
    {id \in LiveQueued : events[id].event_type = "DEPARTURE" /\ events[id].server = n}

\* C29: between event dispatches a node with residents has exactly one
\* non-cancelled DEPARTURE in the queue, which is its recorded pending
\* departure and refers to one of its residents, and a node without residents
\* has none: a node cancels its pending departure before it schedules a new one
C29_OneLiveDeparturePerNode ==
    \A n \in NodeNames :
        IF nodes[n].jobs = <<>>
        THEN LiveDepartures(n) = {}
        ELSE /\ LiveDepartures(n) = {nodes[n].next_departure}
             /\ Resident(events[nodes[n].next_departure].job_id, nodes[n].jobs)

\* a node holds two jobs, its pending departure is the only live one, and a
\* departure it has cancelled is still in the queue
C29_Witness ==
    \E n \in NodeNames :
        /\ Len(nodes[n].jobs) = 2
        /\ LiveDepartures(n) = {nodes[n].next_departure}
        /\ \E id \in Queued : /\ events[id].cancelled
                              /\ events[id].event_type = "DEPARTURE"
                              /\ events[id].server = n

\* C30: when a node's pending DEPARTURE is dispatched, the recomputation at
\* that time (every resident loses the elapsed time divided by the number of
\* residents) brings the departing job's remaining_service to exactly zero,
\* takes no other resident's below zero (the clamp changes nothing), and the
\* departing job is one with the least remaining_service among the residents
C30_DepartingJobReachesZero ==
    [][(Dispatched("DEPARTURE") /\ nodes[events[last'.ret].server].next_departure = last'.ret) =>
         LET e == events[last'.ret]
             nd == nodes[e.server]
             share == RDivInt(RSub(e.time, nd.last_update), Len(nd.jobs))
             rem(j) == jobs[j].remaining_service
         IN  /\ Resident(e.job_id, nd.jobs)
             /\ RSub(rem(e.job_id), share) = R(0)
             /\ \A j \in SeqToSet(nd.jobs) :
                  /\ RLe(rem(e.job_id), rem(j))
                  /\ RLe(R(0), RSub(rem(j), share))
                  /\ j /= e.job_id => jobs'[j].remaining_service = RSub(rem(j), share)
             /\ RoutesToExit(e) => jobs'[e.job_id].remaining_service = R(0)]_vars

\* the pending DEPARTURE of a node with two residents has been dispatched;
\* the job that stays has service left
C30_Witness ==
    /\ last.op = "next"
    /\ last.ret /= None
    /\ events[last.ret].event_type = "DEPARTURE"
    /\ last.residents = 2
    /\ Len(nodes[events[last.ret].server].jobs) = 1
    /\ RLt(R(0), jobs[nodes[events[last.ret].server].jobs[1]].remaining_service)
    /\ events[last.ret].job_id \notin SeqToSet(nodes[events[last.ret].server].jobs)

-----------------------------------------------------------------------------
(* Ownership of the jobs, conservation, and the order of times in a run *)

\* C31: routing hands a job over within one event handler: when the DEPARTURE
\* handler returns for a route other than EXIT the job is resident at the
\* next node, and between events every job that has not exited is resident
\* at some node
C31_RoutedJobResidentAtNext ==
    \A j \in DOMAIN jobs : j \notin Exited => NodesOf(j) /= {}

\* C32: when the domain ARRIVAL handler admits an external arrival (job_id
\* None), job_table holds the new job under its id and the event carries that
\* id from then on, so that the estimators, which are called after the
\* handler, see the arrival with the new job's id (the response-time
\* estimators record its arrival time)
C32_ArrivalBoundToJob ==
    [][(Dispatched("ARRIVAL") /\ events[last'.ret].job_id = None /\ ~raised') =>
         /\ Job_ids' = Job_ids + 1
         /\ Job_ids \in job_table'
         /\ jobs'[Job_ids].id = Job_ids
         /\ events'[last'.ret].job_id = Job_ids
         /\ Job_ids \in DOMAIN est'["rt"].arr]_vars

-----------------------------------------------------------------------------
(* The per-node population and busy-time estimators on a running           *)
(* simulation: the engine and the estimators of SpecEst, and after them    *)
(* one PopulationEstimatorNode and one BusyTimeEstimatorNode per node.     *)

InitNodeEst ==
    /\ Commit_Init(schedule(Fresh, R(0), "ARRIVAL", GenNode, None, GenClass, R(0)))
    /\ subscribers =
         Attach([k \in Kinds |->
                   IF k = "ARRIVAL"
                   THEN <<"ArrivalsGenerator._on_arrival", "Simulation._on_arrival">>
                   ELSE <<"Simulation._on_departure">>],
                Estimators \o DirectEstimators)
    /\ interceptors = NoHandlers
    /\ cnt = 0
    /\ sched_log = <<>>
    /\ manual = [phase |-> "run"]
    /\ rng = <<>>
    /\ twin = <<>>
    /\ est = Built(Estimators \o DirectEstimators, R(0))
    /\ ctor = [pc |-> 0, routing_matrix |-> Workflow]
    /\ last = [op |-> "init"]

NextNodeEst == RunEst

SpecNodeEst == InitNodeEst /\ [][NextNodeEst]_vars

\* C33: the population counter of the per-node population estimator of node
\* X changes only on the events of X, by +1 on an ARRIVAL at X and by -1 on a
\* DEPARTURE from X; after each event it is the number of jobs resident at X,
\* and it is never negative
C33_NodePopulationIsResidents ==
    \A n \in NodeNames :
        /\ est["pop_n[" \o n \o "]"].pop = Len(nodes[n].jobs)
        /\ est["pop_n[" \o n \o "]"].pop >= 0

\* C34: the per-node busy-time estimator of node X is busy exactly while X
\* holds a resident job: a busy interval opens on the ARRIVAL at X, external
\* or routed, that finds X empty, and closes on the DEPARTURE from X that
\* leaves it empty
C34_NodeBusyWhileResident ==
    \A n \in NodeNames :
        est["busy_n[" \o n \o "]"].busy <=> nodes[n].jobs /= <<>>

-----------------------------------------------------------------------------
(* Two runs in one process: when run() of the first Simulation has         *)
(* returned, a second Simulation is constructed and run.  Event._ids and   *)
(* Job._ids are class attributes: the second scheduler, network and        *)
(* counters are new, the two id counters are the ones the first run left.  *)

\* the first Simulation of the process
InitRuns ==
    /\ InitEngine
    /\ est = <<>>
    /\ twin = [run |-> 1, offE |-> 0, offJ |-> 0]

\* one turn of the loop of the Simulation in progress
RunTurnOf == RunStep /\ UNCHANGED <<twin, est>>

\* Simulation.__init__ of the second Simulation, after run() of the first
\* has returned or raised
SecondSimulation ==
    /\ twin.run = 1
    /\ raised \/ ~has_next(event_queue, events)
    /\ Commit(schedule([Fresh EXCEPT !.Event_ids = Event_ids, !.Job_ids = Job_ids],
                       R(0), "ARRIVAL", GenNode, None, GenClass, R(0)))
    /\ cnt' = 0
    /\ twin' = [run |-> 2, offE |-> Event_ids, offJ |-> Job_ids]
    /\ last' = [op |-> "init"]
    /\ UNCHANGED <<subscribers, interceptors, sched_log, manual, rng, est, ctor>>

NextRuns == RunTurnOf \/ SecondSimulation

SpecRuns == InitRuns /\ [][NextRuns]_vars

\* C35: the events and the jobs of a Simulation constructed after another one
\* in the same process are numbered from the value the first one started
\* from (0), whatever number of events and jobs the first run created
C35_IdsStartAfresh ==
    twin.run = 2 =>
        /\ 0 \in DOMAIN events
        /\ jobs /= <<>> => 0 \in DOMAIN jobs

-----------------------------------------------------------------------------
(* The selected stream and the draws made without naming a stream *)

\* C36: after select_stream(s), random() with no argument advances the state
\* that get_seed() reports, the one of the selected stream, by one Lehmer
\* step, returns it over m, and leaves the other 255 streams unchanged
C36_NoArgumentDrawsSelected ==
    [][(last'.op = "random" /\ "given" \in DOMAIN last') =>
         /\ get_seed(rng') = MulMod(MULTIPLIER, get_seed(rng))
         /\ last'.ret = <<get_seed(rng'), MODULUS>>
         /\ \A j \in 0..(STREAMS - 1) \ {rng.stream} : rng'.seed[j] = rng.seed[j]]_vars

-----------------------------------------------------------------------------
(* Conservation of the jobs in a run *)

\* the pending ARRIVAL events of routed jobs: the jobs in transit
Transit ==
    {a \in LiveQueued : events[a].event_type = "ARRIVAL" /\ events[a].job_id /= None}

RECURSIVE ResidentsOf(_)
\* the number of entries of the jobs lists of the nodes ns
ResidentsOf(ns) ==
    IF ns = {}
    THEN 0
    ELSE LET n == CHOOSE x \in ns : TRUE
         IN  Len(nodes[n].jobs) + ResidentsOf(ns \ {n})

\* C37: after each event, total_external_arrivals = total_completed_jobs
\* + the number of jobs resident in the nodes + the number of jobs in
\* transit (pending routed ARRIVAL events); a job admitted is at most once in
\* one node or in transit, and nowhere once it has left through EXIT: none
\* is lost, none is duplicated
C37_JobsConserved ==
    /\ total_external_arrivals =
         total_completed_jobs + ResidentsOf(NodeNames) + Cardinality(Transit)
    /\ Cardinality(DOMAIN jobs) = total_external_arrivals
    /\ \A n \in NodeNames : Len(nodes[n].jobs) = Cardinality(SeqToSet(nodes[n].jobs))
    /\ \A j \in DOMAIN jobs :
         LET inTransit == {a \in Transit : events[a].job_id = j}
         IN  /\ Cardinality(NodesOf(j)) + Cardinality(inTransit) <= 1
             /\ j \in Exited => NodesOf(j) = {} /\ inTransit = {}

\* two jobs have been admitted; one has completed, the other is in transit
\* to the next node of its route
C37_Witness ==
    /\ total_external_arrivals = 2
    /\ total_completed_jobs = 1
    /\ Cardinality(Transit) = 1
    /\ ResidentsOf(NodeNames) = 0

-----------------------------------------------------------------------------
(* The DEPARTURE events a run dispatches *)

\* C38: every DEPARTURE the run dispatches is the pending departure of its
\* node, for a job that is in job_table and resident at that node with the
\* class recorded in the event: the handler never takes its stale-event
\* branch, and routing_matrix is looked up with the job's current class
C38_DispatchedDepartureIsCurrent ==
    [][Dispatched("DEPARTURE") =>
         LET e == events[last'.ret]
         IN  /\ e.job_id /= None
             /\ e.job_id \in job_table
             /\ Resident(e.job_id, nodes[e.server].jobs)
             /\ jobs[e.job_id].job_class = e.job_class
             /\ nodes[e.server].next_departure = e.id
             /\ ~raised']_vars

\* the run has dispatched the DEPARTURE of a job on a later visit (its class
\* changed by routing), after a departure of that node was superseded and
\* cancelled while queued
C38_Witness ==
    /\ last.op = "next"
    /\ last.ret /= None
    /\ events[last.ret].event_type = "DEPARTURE"
    /\ events[last.ret].job_class /= GenClass
    /\ \E d \in DOMAIN events :
         /\ events[d].event_type = "DEPARTURE"
         /\ events[d].server = events[last.ret].server
         /\ events[d].cancelled
         /\ d < last.ret

-----------------------------------------------------------------------------
(* The order of times in a run *)

\* C39: in a run current_time never decreases; every event is created with a
\* time not before current_time, so no live queued event is in the past and
\* events are dispatched in non-decreasing order of time; the last_update of
\* each node never decreases and never exceeds current_time
C39_TimeNeverDecreases ==
    /\ [][RLe(current_time, current_time')]_vars
    /\ [][\A d \in DOMAIN events' \ DOMAIN events :
            RLe(current_time', events'[d].time)]_vars
    /\ [](\A a \in LiveQueued : RLe(current_time, events[a].time))
    /\ [][Dispatched("ARRIVAL") \/ Dispatched("DEPARTURE") =>
            current_time' = events[last'.ret].time]_vars
    /\ [](\A n \in NodeNames : RLe(nodes[n].last_update, current_time))
    /\ [][\A n \in NodeNames : RLe(nodes[n].last_update, nodes'[n].last_update)]_vars

\* the clock has advanced past 0, with an event scheduled for a later time
\* still queued and a node updated at the current time after an earlier one
C39_Witness ==
    /\ RLt(R(0), current_time)
    /\ \E a \in LiveQueued : RLt(current_time, events[a].time)
    /\ \E n \in NodeNames : nodes[n].last_update = current_time
    /\ \E n \in NodeNames : RLt(nodes[n].last_update, current_time)
    /\ last.op = "next"

-----------------------------------------------------------------------------
(* The system-wide population estimator and the counters of the run *)

\* C40: after each event, the pop of the system-wide PopulationEstimator is
\* total_external_arrivals - total_completed_jobs, the number of jobs in the
\* system (resident or in transit), and it is never negative
C40_PopulationIsJobsInSystem ==
    /\ est["pop"].pop = total_external_arrivals - total_completed_jobs
    /\ est["pop"].pop = ResidentsOf(NodeNames) + Cardinality(Transit)
    /\ est["pop"].pop >= 0
    /\ est["pop"].min >= 0

\* the estimator has counted two admissions and one completion: one job is
\* in the system, routed and not yet arrived at its next node
C40_Witness ==
    /\ est["pop"].pop = 1
    /\ est["pop"].max = 2
    /\ total_completed_jobs = 1
    /\ Cardinality(Transit) = 1
    /\ last.op = "next"

====
